---- MODULE Spec2Model ----
(***************************************************************************)
(* DaroEngine2: the frame-buffer publisher (Engine/FrameBuffer.cpp), the   *)
(* layer table and the per-frame compositing entry points                  *)
(* (Engine/DaroEngine.cpp) and the masked render dispatch                  *)
(* (Engine/Renderer.cpp), as state machines.                               *)
(***************************************************************************)
EXTENDS Integers, Sequences, FiniteSets, TLC

(***************************************************************************)
(* Bounds of the model.                                                    *)
(***************************************************************************)
\* rows of the shared pixel region (the height given to Initialize)
FBHeight == 2
\* bytes per row of the shared pixel region (m_Stride)
FBStride == 2
\* the frame numbers a Write call may carry are 0..MaxFrameNo
MaxFrameNo == 2

\* the content of shared memory before any Write (no frame)
NoFrame == -1
\* pixels of the canvas (one row of the width given to Initialize)
CanvasW == 4

(***************************************************************************)
(* State of DaroFrameBuffer and of its two client threads.                 *)
(***************************************************************************)
VARIABLES
    m_IsLocked,     \* std::atomic<bool> m_IsLocked
    hdr,            \* DaroFrameHeader in the shared region: frameNumber, locked
    m_pPixels,      \* the shared pixel region: row -> column -> frame the byte came from
    m_Mutex,        \* owner of std::mutex m_Mutex: "free", "writer"
    cvSignal,       \* a notify_one on m_UnlockCondition has reached the waiting writer
    wpc,            \* position of the writer thread inside Write
    w,              \* locals of the running Write call
    wGhost,         \* history of the running/last Write call (for the properties):
                    \* unlockSeen: an Unlock came during the call; unlockedSince: and
                    \* no Lock after it
    rpc             \* position of the reader thread

fbVars == <<m_IsLocked, hdr, m_pPixels, m_Mutex, cvSignal, wpc, w, wGhost, rpc>>

(***************************************************************************)
(* State of the engine (DaroEngine.cpp globals) and of DaroRenderer.       *)
(***************************************************************************)
VARIABLES
    g_Initialized,  \* std::atomic<bool> g_Initialized
    g_LastError,    \* std::atomic<int> g_LastError
    g_Renderer,     \* g_Renderer holds a renderer
    g_FrameBuffer,  \* g_FrameBuffer holds a frame buffer
    g_Layers,       \* DaroLayer g_Layers[DARO_MAX_LAYERS]
    g_LayerCount,   \* int g_LayerCount
    g_FrameNumber,  \* std::atomic<long long> g_FrameNumber
    m_DeviceLost,   \* DaroRenderer::m_DeviceLost
    m_ShowBounds,   \* DaroRenderer::m_ShowBounds
    omDSV,          \* the depth-stencil view is bound to the output merger
    commonBound,    \* shaders, input layout and geometry are bound (BindCommonState)
    d2d,            \* m_D2DRenderTarget and the cached brushes / text format
    layerToMasks,   \* Daro_Render's static map: target id -> mask indices (non-empty entries)
    lastOp,         \* the entry point called last, its arguments, what it returned and issued
    lastUpdate,     \* history: payload of the last UpdateLayer per index since clear/initialize
    frameBegun      \* history: BeginFrame has set up the pipeline for a frame not yet rendered

engVars == <<g_Initialized, g_LastError, g_Renderer, g_FrameBuffer, g_Layers, g_LayerCount,
             g_FrameNumber, m_DeviceLost, m_ShowBounds, omDSV, commonBound, d2d,
             layerToMasks, lastOp, lastUpdate, frameBegun>>

(***************************************************************************)
(* State of the Spout sender, the texture cache (Renderer.cpp), the        *)
(* VideoManager singleton (VideoPlayer.cpp) and the dropped-frame counter. *)
(***************************************************************************)
VARIABLES
    m_SpoutEnabled,   \* DaroRenderer::m_SpoutEnabled
    m_Textures,       \* DaroRenderer::m_Textures: texture id -> path
    m_NextTextureId,  \* DaroRenderer::m_NextTextureId
    m_SpoutReceivers, \* DaroRenderer::m_SpoutReceivers: the receiver ids in use
    m_NextReceiverId, \* DaroRenderer::m_NextReceiverId
    m_SyncQuery,      \* DaroRenderer::m_SyncQuery: the GPU sync query exists
    vm_Initialized,   \* VideoManager::m_Initialized
    m_Players,        \* VideoManager::m_Players: video id -> player
    m_NextVideoId,    \* VideoManager::m_NextVideoId
    g_DroppedFrames,  \* std::atomic<int> g_DroppedFrames
    g_TargetFps       \* double g_TargetFps, in whole frames per second

mediaVars == <<m_SpoutEnabled, m_Textures, m_NextTextureId, m_SpoutReceivers,
               m_NextReceiverId, m_SyncQuery, vm_Initialized, m_Players,
               m_NextVideoId, g_DroppedFrames, g_TargetFps>>

(***************************************************************************)
(* The engine mutex and the two threads that call into the engine: the     *)
(* render thread (frame cycle) and the host thread (layer table).          *)
(***************************************************************************)
VARIABLES
    g_Mutex,        \* owner of std::mutex g_Mutex: "free", "render", "host"
    renderThread,   \* position and locals of the render thread inside an entry point
    hostThread      \* position and arguments of the host thread inside a table call

lockVars == <<g_Mutex, renderThread, hostThread>>

vars == <<fbVars, engVars, mediaVars, lockVars>>

Rows == 0 .. (FBHeight - 1)
Cols == 0 .. (FBStride - 1)
FrameNos == 0 .. MaxFrameNo
\* source strides offered to Write: equal to, smaller and larger than m_Stride
SrcStrides == {FBStride - 1, FBStride, FBStride + 1}

Min(a, b) == IF a < b THEN a ELSE b
Max(a, b) == IF a > b THEN a ELSE b

\* DaroFrameBuffer::Initialize: header zeroed, unlocked, fresh mapping
FBInitialized ==
    /\ m_IsLocked = FALSE
    /\ hdr = [frameNumber |-> 0, locked |-> 0]
    /\ m_pPixels = [y \in Rows |-> [x \in Cols |-> NoFrame]]
    /\ m_Mutex = "free"
    /\ cvSignal = FALSE
    /\ wpc = "idle"
    /\ w = [srcStride |-> FBStride, frameNumber |-> 0, y |-> 0, timedOut |-> FALSE]
    /\ wGhost = [lockedAtCall |-> FALSE, unlockSeen |-> FALSE, unlockedSince |-> FALSE,
                 result |-> "none",
                 pixels |-> [y \in Rows |-> [x \in Cols |-> NoFrame]], frameNumber |-> 0]
    /\ rpc = "idle"

(***************************************************************************)
(* DaroFrameBuffer::Write, step by step (the writer thread).               *)
(***************************************************************************)
\* entry: `if (!m_pPixels || !pData) return;`
WriteEntry(pDataNull, srcStride, frameNumber) ==
    /\ wpc = "idle"
    /\ wGhost' = [lockedAtCall |-> m_IsLocked, unlockSeen |-> FALSE,
                  unlockedSince |-> FALSE,
                  result |-> IF pDataNull THEN "rejected" ELSE "running",
                  pixels |-> m_pPixels, frameNumber |-> hdr.frameNumber]
    /\ IF pDataNull
       THEN UNCHANGED <<wpc, w>>
       ELSE /\ wpc' = "acquire"
            /\ w' = [srcStride |-> srcStride, frameNumber |-> frameNumber,
                     y |-> 0, timedOut |-> FALSE]
    /\ UNCHANGED <<m_IsLocked, hdr, m_pPixels, m_Mutex, cvSignal, rpc>>

\* a Write call by a client of the frame buffer alone
W_Call(pDataNull, srcStride, frameNumber) ==
    /\ WriteEntry(pDataNull, srcStride, frameNumber)
    /\ UNCHANGED <<engVars, mediaVars, lockVars>>

\* `std::unique_lock<std::mutex> lock(m_Mutex);` then `if (m_IsLocked)`: the
\* predicate of wait_for is false, so the writer releases the mutex and waits
W_Acquire ==
    /\ wpc = "acquire"
    /\ m_Mutex = "free"
    /\ IF m_IsLocked
       THEN /\ wpc' = "waiting"
            /\ UNCHANGED m_Mutex
       ELSE /\ wpc' = "copy"
            /\ m_Mutex' = "writer"
    /\ cvSignal' = FALSE
    /\ UNCHANGED <<m_IsLocked, hdr, m_pPixels, w, wGhost, rpc>>
    /\ UNCHANGED <<engVars, mediaVars>>
    /\ UNCHANGED lockVars

\* the wait ends: by a notification, spuriously, or because the 10 ms expired
W_Wake_Notify ==
    /\ wpc = "waiting"
    /\ cvSignal
    /\ wpc' = "reacquire"
    /\ cvSignal' = FALSE
    /\ UNCHANGED <<m_IsLocked, hdr, m_pPixels, m_Mutex, w, wGhost, rpc>>
    /\ UNCHANGED <<engVars, mediaVars>>
    /\ UNCHANGED lockVars

W_Wake_Spurious ==
    /\ wpc = "waiting"
    /\ ~cvSignal
    /\ wpc' = "reacquire"
    /\ UNCHANGED <<m_IsLocked, hdr, m_pPixels, m_Mutex, cvSignal, w, wGhost, rpc>>
    /\ UNCHANGED <<engVars, mediaVars>>
    /\ UNCHANGED lockVars

\* a wait without a deadline: `wait(lock, pred)` instead of `wait_for`
W_Wake_NoTimeout ==
    /\ wpc = "waiting"
    /\ FALSE
    /\ UNCHANGED vars

W_Wake_Timeout ==
    /\ wpc = "waiting"
    /\ wpc' = "reacquire"
    /\ w' = [w EXCEPT !.timedOut = TRUE]
    /\ cvSignal' = FALSE
    /\ UNCHANGED <<m_IsLocked, hdr, m_pPixels, m_Mutex, wGhost, rpc>>
    /\ UNCHANGED <<engVars, mediaVars>>
    /\ UNCHANGED lockVars

\* what Write does once wait_for has returned: `if (m_IsLocked) return;`
DropIgnored(isLocked) == FALSE
\* a Write that gives up whenever the wait has timed out
DropOnTimeout(isLocked) == TRUE
DropAfterWait(isLocked) == isLocked

\* wait_for re-acquires the mutex and evaluates the predicate; after a timeout
\* it returns pred(), after a wake-up it waits again while the predicate is false
W_Reacquire ==
    /\ wpc = "reacquire"
    /\ m_Mutex = "free"
    /\ IF w.timedOut
       THEN IF DropAfterWait(m_IsLocked)
            THEN /\ wpc' = "idle"
                 /\ wGhost' = [wGhost EXCEPT !.result = "dropped"]
                 /\ UNCHANGED m_Mutex
            ELSE /\ wpc' = "copy"
                 /\ m_Mutex' = "writer"
                 /\ UNCHANGED wGhost
       ELSE IF m_IsLocked
            THEN /\ wpc' = "waiting"
                 /\ UNCHANGED <<m_Mutex, wGhost>>
            ELSE /\ wpc' = "copy"
                 /\ m_Mutex' = "writer"
                 /\ UNCHANGED wGhost
    /\ UNCHANGED <<m_IsLocked, hdr, m_pPixels, cvSignal, w, rpc>>
    /\ UNCHANGED <<engVars, mediaVars>>
    /\ UNCHANGED lockVars

\* bytes of row y the copy writes: the whole row when the strides match (one
\* memcpy of stride*height bytes), else min(srcStride, m_Stride) bytes
\* a row copy of srcStride bytes whatever the stride of the buffer
CopiedColsNoMin(srcStride) == 0 .. (srcStride - 1)

CopiedCols(srcStride) ==
    IF srcStride = FBStride THEN Cols
    ELSE 0 .. (Min(srcStride, FBStride) - 1)

CopyRow(pixels, y, srcStride, frameNumber) ==
    [pixels EXCEPT ![y] = [x \in Cols |->
        IF x \in CopiedCols(srcStride) THEN frameNumber ELSE pixels[y][x]]]

W_CopyRow ==
    /\ wpc = "copy"
    /\ w.y < FBHeight
    /\ m_pPixels' = CopyRow(m_pPixels, w.y, w.srcStride, w.frameNumber)
    /\ w' = [w EXCEPT !.y = w.y + 1]
    /\ UNCHANGED <<m_IsLocked, hdr, m_Mutex, cvSignal, wpc, wGhost, rpc>>
    /\ UNCHANGED <<engVars, mediaVars>>
    /\ UNCHANGED lockVars

\* a Write that returns after the copy without stamping the header
W_NoStamp ==
    /\ wpc = "copy"
    /\ w.y = FBHeight
    /\ m_Mutex' = "free"
    /\ wpc' = "idle"
    /\ wGhost' = [wGhost EXCEPT !.result = "written"]
    /\ UNCHANGED <<m_IsLocked, hdr, m_pPixels, cvSignal, w, rpc>>
    /\ UNCHANGED <<engVars, mediaVars>>
    /\ UNCHANGED lockVars

\* `m_pHeader->frameNumber = frameNumber;` and the return releases the mutex
W_Stamp ==
    /\ wpc = "copy"
    /\ w.y = FBHeight
    /\ hdr' = [hdr EXCEPT !.frameNumber = w.frameNumber]
    /\ m_Mutex' = "free"
    /\ wpc' = "idle"
    /\ wGhost' = [wGhost EXCEPT !.result = "written"]
    /\ UNCHANGED <<m_IsLocked, m_pPixels, cvSignal, w, rpc>>
    /\ UNCHANGED <<engVars, mediaVars>>
    /\ UNCHANGED lockVars

(***************************************************************************)
(* DaroFrameBuffer::Lock and Unlock (the reader thread).                   *)
(***************************************************************************)
\* Lock that sets the flag without taking m_Mutex
R_Lock_NoMutex ==
    /\ rpc = "idle"
    /\ m_IsLocked' = TRUE
    /\ hdr' = [hdr EXCEPT !.locked = 1]
    /\ rpc' = "locked"
    /\ wGhost' = [wGhost EXCEPT !.unlockedSince = FALSE]
    /\ UNCHANGED <<m_pPixels, m_Mutex, cvSignal, wpc, w>>
    /\ UNCHANGED <<engVars, mediaVars>>
    /\ UNCHANGED lockVars

\* Lock: under lock_guard(m_Mutex) set m_IsLocked and header.locked, return true
R_Lock ==
    /\ rpc = "idle"
    /\ m_Mutex = "free"
    /\ m_IsLocked' = TRUE
    /\ hdr' = [hdr EXCEPT !.locked = 1]
    /\ rpc' = "locked"
    /\ wGhost' = [wGhost EXCEPT !.unlockedSince = FALSE]
    /\ UNCHANGED <<m_pPixels, m_Mutex, cvSignal, wpc, w>>
    /\ UNCHANGED <<engVars, mediaVars>>
    /\ UNCHANGED lockVars

\* Unlock, the critical section: clear header.locked and m_IsLocked
R_Unlock ==
    /\ rpc \in {"idle", "locked"}
    /\ m_Mutex = "free"
    /\ m_IsLocked' = FALSE
    /\ hdr' = [hdr EXCEPT !.locked = 0]
    /\ rpc' = "notify"
    /\ wGhost' = IF wpc # "idle"
                  THEN [wGhost EXCEPT !.unlockSeen = TRUE, !.unlockedSince = TRUE]
                  ELSE wGhost
    /\ UNCHANGED <<m_pPixels, m_Mutex, cvSignal, wpc, w>>
    /\ UNCHANGED <<engVars, mediaVars>>
    /\ UNCHANGED lockVars

\* Unlock, after the critical section: m_UnlockCondition.notify_one()
R_Notify ==
    /\ rpc = "notify"
    /\ cvSignal' = (wpc = "waiting")
    /\ rpc' = "idle"
    /\ UNCHANGED <<m_IsLocked, hdr, m_pPixels, m_Mutex, wpc, w, wGhost>>
    /\ UNCHANGED <<engVars, mediaVars>>
    /\ UNCHANGED lockVars

(***************************************************************************)
(* Engine/SharedTypes.h and Engine/DaroEngine.h.                           *)
(***************************************************************************)
DARO_MAX_LAYERS == 64

DARO_TYPE_RECTANGLE == 0
DARO_TYPE_CIRCLE == 1
DARO_TYPE_TEXT == 2
DARO_TYPE_IMAGE == 3
DARO_TYPE_VIDEO == 4
DARO_TYPE_MASK == 5
DARO_TYPE_GROUP == 6

DARO_OK == 0
DARO_ERROR_ALREADY_INIT == 1
DARO_ERROR_CREATE_DEVICE == 2
DARO_ERROR_CREATE_RT == 3
DARO_ERROR_CREATE_SHADERS == 4
DARO_ERROR_CREATE_GEOMETRY == 5
DARO_ERROR_CREATE_STAGING == 6
DARO_ERROR_CREATE_FRAMEBUFFER == 7

\* the values of a 32-bit int at its ends
INT_MIN == -2147483647 - 1
INT_MAX == 2147483647

LayerIdx == 0 .. (DARO_MAX_LAYERS - 1)

\* struct DaroLayer, the fields the compositing reads: posX/sizeX stand for the
\* position and size (one axis, no rotation), hasText for textContent[0] != 0,
\* fontKey for the font tuple, maskedLayerIds for the leading entries of the
\* array (the entries behind them are 0)
MkLayer(id, active, layerType, posX, sizeX, hasText, maskMode, maskedLayerCount, maskedLayerIds) ==
    [id |-> id, active |-> active, layerType |-> layerType, posX |-> posX, sizeX |-> sizeX,
     hasText |-> hasText, fontKey |-> 0, maskMode |-> maskMode,
     maskedLayerCount |-> maskedLayerCount, maskedLayerIds |-> maskedLayerIds]

\* a record after memset(.., 0, ..)
ZeroLayer == MkLayer(0, 0, 0, 0, 0, FALSE, 0, 0, <<>>)

ZeroTable == [i \in LayerIdx |-> ZeroLayer]

\* no text format is cached (m_CachedTextFormat is null)
NoFormat == -1

\* no renderer: no Direct2D target, nothing cached
NoD2D == [target |-> FALSE, shapeBrush |-> FALSE, textBrush |-> FALSE, textFormat |-> NoFormat]

\* layerToMasks without any non-empty entry
EmptyIndex == [k \in {} |-> <<>>]

\* no Spout sender, no texture, the VideoManager singleton as constructed,
\* no frame dropped
MediaStart ==
    /\ m_SpoutEnabled = FALSE
    /\ m_Textures = EmptyIndex
    /\ m_NextTextureId = 1
    /\ m_SpoutReceivers = {}
    /\ m_NextReceiverId = 1
    /\ vm_Initialized = FALSE
    /\ m_Players = EmptyIndex
    /\ m_NextVideoId = 1
    /\ g_DroppedFrames = 0
    /\ g_TargetFps = 50

\* the state of the process before Daro_Initialize
EngineStart ==
    /\ MediaStart
    /\ m_SyncQuery = FALSE
    /\ g_Initialized = FALSE
    /\ g_LastError = DARO_OK
    /\ g_Renderer = FALSE
    /\ g_FrameBuffer = FALSE
    /\ g_Layers = ZeroTable
    /\ g_LayerCount = 0
    /\ g_FrameNumber = 0
    /\ m_DeviceLost = FALSE
    /\ m_ShowBounds = FALSE
    /\ omDSV = FALSE
    /\ commonBound = FALSE
    /\ d2d = NoD2D
    /\ layerToMasks = EmptyIndex
    /\ lastOp = [op |-> "none"]
    /\ lastUpdate = EmptyIndex
    /\ frameBegun = FALSE

\* a renderer fresh from DaroRenderer::Initialize: the colour target bound
\* without depth-stencil view (CreateMSAARenderTarget), nothing else bound,
\* the Direct2D target created, no brush or text format cached
FreshD2D == [target |-> TRUE, shapeBrush |-> FALSE, textBrush |-> FALSE, textFormat |-> NoFormat]

\* the state right after a successful Daro_Initialize
EngineInitialized ==
    /\ MediaStart
    /\ m_SyncQuery = TRUE
    /\ g_Initialized = TRUE
    /\ g_LastError = DARO_OK
    /\ g_Renderer = TRUE
    /\ g_FrameBuffer = TRUE
    /\ g_Layers = ZeroTable
    /\ g_LayerCount = 0
    /\ g_FrameNumber = 0
    /\ m_DeviceLost = FALSE
    /\ m_ShowBounds = FALSE
    /\ omDSV = FALSE
    /\ commonBound = FALSE
    /\ d2d = FreshD2D
    /\ layerToMasks = EmptyIndex
    /\ lastOp = [op |-> "Initialize", ret |-> DARO_OK]
    /\ lastUpdate = EmptyIndex
    /\ frameBegun = FALSE

fbData == <<m_IsLocked, hdr, m_pPixels>>
fbThreads == <<m_Mutex, cvSignal, wpc, w, wGhost, rpc>>
rendererVars == <<m_DeviceLost, m_ShowBounds, omDSV, commonBound, d2d>>
receiverVars == <<m_SpoutReceivers, m_NextReceiverId>>
rendererMedia == <<m_SpoutEnabled, m_Textures, m_NextTextureId, receiverVars, m_SyncQuery>>
videoVars == <<vm_Initialized, m_Players, m_NextVideoId>>
timingVars == <<g_DroppedFrames, g_TargetFps>>

(***************************************************************************)
(* Lifecycle: Daro_Initialize, Daro_Shutdown.                              *)
(***************************************************************************)
\* an initialization that forgets `g_Renderer.reset()` when the frame buffer
\* cannot be created
InitializeKeepsRenderer(result, targetFps, query) ==
    /\ IF g_Initialized
       THEN /\ g_LastError' = DARO_ERROR_ALREADY_INIT
            /\ UNCHANGED g_TargetFps
            /\ lastOp' = [op |-> "Initialize", ret |-> DARO_ERROR_ALREADY_INIT]
            /\ UNCHANGED <<g_Initialized, g_Renderer, g_FrameBuffer, g_Layers, g_LayerCount,
                           lastUpdate, frameBegun, rendererVars, rendererMedia, fbData>>
       ELSE IF result # DARO_OK
       THEN /\ g_LastError' = result
            /\ g_Renderer' = (result = DARO_ERROR_CREATE_FRAMEBUFFER)
            /\ g_FrameBuffer' = FALSE
            /\ lastOp' = [op |-> "Initialize", ret |-> result]
            /\ g_TargetFps' = targetFps
            /\ UNCHANGED <<g_Initialized, g_Layers, g_LayerCount, lastUpdate, frameBegun,
                           rendererVars, rendererMedia, fbData>>
       ELSE /\ g_Renderer' = TRUE
            /\ g_FrameBuffer' = TRUE
            /\ m_DeviceLost' = FALSE
            /\ m_ShowBounds' = FALSE
            /\ omDSV' = FALSE
            /\ commonBound' = FALSE
            /\ d2d' = FreshD2D
            /\ m_SpoutEnabled' = FALSE
            /\ m_Textures' = EmptyIndex
            /\ m_NextTextureId' = 1
            /\ m_SpoutReceivers' = {}
            /\ m_NextReceiverId' = 1
            /\ m_SyncQuery' = query
            /\ m_IsLocked' = FALSE
            /\ hdr' = [frameNumber |-> 0, locked |-> 0]
            /\ m_pPixels' = [y \in Rows |-> [x \in Cols |-> NoFrame]]
            /\ g_Layers' = ZeroTable
            /\ g_LayerCount' = 0
            /\ lastUpdate' = EmptyIndex
            /\ frameBegun' = FALSE
            /\ g_Initialized' = TRUE
            /\ g_LastError' = DARO_OK
            /\ g_TargetFps' = targetFps
            /\ lastOp' = [op |-> "Initialize", ret |-> DARO_OK]
    /\ UNCHANGED <<g_FrameNumber, layerToMasks, fbThreads, videoVars, g_DroppedFrames>>
    /\ UNCHANGED lockVars

\* the steps of Daro_Initialize and DaroRenderer::Initialize in the order the
\* code takes them, and the status each returns when it fails
InitializeSteps ==
    <<"CoInitializeEx", "CreateDevice", "CreateRenderTarget", "CreateMSAARenderTarget",
      "CreateDepthStencil", "CreateShaders", "CreateDepthStencilStates", "CreateGeometry",
      "CreateStagingTexture", "InitWIC", "InitDirect2D", "FrameBuffer">>

StepStatus(step) ==
    CASE step \in {"CoInitializeEx", "CreateDevice", "InitWIC", "InitDirect2D"}
           -> DARO_ERROR_CREATE_DEVICE
      [] step \in {"CreateRenderTarget", "CreateMSAARenderTarget", "CreateDepthStencil"}
           -> DARO_ERROR_CREATE_RT
      [] step \in {"CreateShaders", "CreateDepthStencilStates"} -> DARO_ERROR_CREATE_SHADERS
      [] step = "CreateGeometry" -> DARO_ERROR_CREATE_GEOMETRY
      [] step = "CreateStagingTexture" -> DARO_ERROR_CREATE_STAGING
      [] step = "FrameBuffer" -> DARO_ERROR_CREATE_FRAMEBUFFER

\* what an initialization reaches when the steps in `failing` fail: the
\* status of the first of them, DARO_OK when none does
RECURSIVE InitializeResult(_, _)
InitializeResult(failing, i) ==
    IF i > Len(InitializeSteps) THEN DARO_OK
    ELSE IF InitializeSteps[i] \in failing THEN StepStatus(InitializeSteps[i])
    ELSE InitializeResult(failing, i + 1)

\* `result` is what the environment lets the initialization reach: DARO_OK, or
\* the status of the step that fails; DARO_ERROR_CREATE_DEVICE is the status
\* of a failed CoInitializeEx, before targetFps is stored, and of a failed
\* device creation, after it; `query`: CreateQuery gives the GPU sync query
Daro_InitializeWith(result, targetFps, query) ==
    /\ IF g_Initialized
       THEN /\ g_LastError' = DARO_ERROR_ALREADY_INIT
            /\ UNCHANGED g_TargetFps
            /\ lastOp' = [op |-> "Initialize", ret |-> DARO_ERROR_ALREADY_INIT]
            /\ UNCHANGED <<g_Initialized, g_Renderer, g_FrameBuffer, g_Layers, g_LayerCount,
                           lastUpdate, frameBegun, rendererVars, rendererMedia, fbData>>
       ELSE IF result # DARO_OK
       THEN /\ g_LastError' = result
            /\ g_Renderer' = FALSE
            /\ g_FrameBuffer' = FALSE
            /\ lastOp' = [op |-> "Initialize", ret |-> result]
            /\ g_TargetFps' \in IF result = DARO_ERROR_CREATE_DEVICE
                               THEN {g_TargetFps, targetFps} ELSE {targetFps}
            /\ UNCHANGED <<g_Initialized, g_Layers, g_LayerCount, lastUpdate, frameBegun,
                           rendererVars, rendererMedia, fbData>>
       ELSE /\ g_Renderer' = TRUE
            /\ g_FrameBuffer' = TRUE
            /\ m_DeviceLost' = FALSE
            /\ m_ShowBounds' = FALSE
            /\ omDSV' = FALSE
            /\ commonBound' = FALSE
            /\ d2d' = FreshD2D
            /\ m_SpoutEnabled' = FALSE
            /\ m_Textures' = EmptyIndex
            /\ m_NextTextureId' = 1
            /\ m_SpoutReceivers' = {}
            /\ m_NextReceiverId' = 1
            /\ m_SyncQuery' = query
            /\ m_IsLocked' = FALSE
            /\ hdr' = [frameNumber |-> 0, locked |-> 0]
            /\ m_pPixels' = [y \in Rows |-> [x \in Cols |-> NoFrame]]
            /\ g_Layers' = ZeroTable
            /\ g_LayerCount' = 0
            /\ lastUpdate' = EmptyIndex
            /\ frameBegun' = FALSE
            /\ g_Initialized' = TRUE
            /\ g_LastError' = DARO_OK
            /\ g_TargetFps' = targetFps
            /\ lastOp' = [op |-> "Initialize", ret |-> DARO_OK]
    /\ UNCHANGED <<g_FrameNumber, layerToMasks, fbThreads, videoVars, g_DroppedFrames>>
    /\ UNCHANGED lockVars

\* an initialization that gets its GPU sync query
Daro_Initialize(result, targetFps) == Daro_InitializeWith(result, targetFps, TRUE)

\* the numbers of a std::map's keys in the order it is walked
RECURSIVE InOrder(_)
InOrder(S) ==
    IF S = {} THEN <<>>
    ELSE LET least == CHOOSE k \in S : \A j \in S : k <= j
         IN <<least>> \o InOrder(S \ {least})

Released(kind, ids) == [i \in 1 .. Len(ids) |-> [kind |-> kind, id |-> ids[i]]]

\* what g_Renderer.reset() releases, in order.  DaroRenderer::Shutdown, run
\* by the destructor: the Spout sender when enabled, the players of the
\* VideoManager and Media Foundation, the Spout receivers, the sender's
\* DirectX connection, the Direct2D objects that exist, the textures, the
\* pipeline objects (samplers, states, buffers, shaders, targets), the
\* context and the device; then the members Shutdown has not reset are
\* destroyed with the renderer: the GPU sync query
ShutdownReleases ==
    Released("sender", IF m_SpoutEnabled THEN <<0>> ELSE <<>>)
    \o Released("video", InOrder(DOMAIN m_Players))
    \o Released("MediaFoundation", IF vm_Initialized THEN <<0>> ELSE <<>>)
    \o Released("receiver", InOrder(m_SpoutReceivers))
    \o Released("senderDirectX", <<0>>)
    \o Released("textFormat", IF d2d.textFormat # NoFormat THEN <<0>> ELSE <<>>)
    \o Released("textBrush", IF d2d.textBrush THEN <<0>> ELSE <<>>)
    \o Released("shapeBrush", IF d2d.shapeBrush THEN <<0>> ELSE <<>>)
    \o Released("D2DRenderTarget", IF d2d.target THEN <<0>> ELSE <<>>)
    \o Released("texture", InOrder(DOMAIN m_Textures))
    \o Released("pipeline", <<0>>)
    \o Released("context", <<0>>)
    \o Released("device", <<0>>)
    \o Released("syncQuery", IF m_SyncQuery THEN <<0>> ELSE <<>>)

\* the renderer and the frame buffer are destroyed: their members are gone;
\* DaroRenderer::Shutdown disables Spout and shuts the VideoManager down;
\* `last`: what was released last
ShutdownBody ==
    /\ IF ~g_Initialized
       THEN UNCHANGED <<g_Initialized, g_Renderer, g_FrameBuffer, frameBegun, m_IsLocked,
                        rendererVars, rendererMedia, vm_Initialized, m_Players>>
       ELSE /\ g_FrameBuffer' = FALSE
            /\ g_Renderer' = FALSE
            /\ g_Initialized' = FALSE
            /\ frameBegun' = FALSE
            /\ m_IsLocked' = FALSE
            /\ m_DeviceLost' = FALSE
            /\ m_ShowBounds' = FALSE
            /\ omDSV' = FALSE
            /\ commonBound' = FALSE
            /\ d2d' = NoD2D
            /\ m_SpoutEnabled' = FALSE
            /\ m_Textures' = EmptyIndex
            /\ m_NextTextureId' = 1
            /\ m_SpoutReceivers' = {}
            /\ m_NextReceiverId' = 1
            /\ m_SyncQuery' = FALSE
            /\ vm_Initialized' = FALSE
            /\ m_Players' = EmptyIndex
    /\ lastOp' = [op |-> "Shutdown",
                  last |-> IF g_Initialized
                           THEN ShutdownReleases[Len(ShutdownReleases)].kind
                           ELSE "none"]
    /\ UNCHANGED <<g_LastError, g_Layers, g_LayerCount, g_FrameNumber,
                   layerToMasks, lastUpdate, hdr, m_pPixels, fbThreads, m_NextVideoId,
                   timingVars>>

Daro_Shutdown == ShutdownBody /\ UNCHANGED lockVars

(***************************************************************************)
(* The layer table: Daro_SetLayerCount, Daro_UpdateLayer, Daro_GetLayer,   *)
(* Daro_ClearLayers.                                                       *)
(***************************************************************************)
\* SetLayerCount that stores its argument as it comes
UnclampedCount(count) == count

\* `if (count < 0) count = 0; g_LayerCount = min(count, DARO_MAX_LAYERS);`
ClampCount(count) == Min(IF count < 0 THEN 0 ELSE count, DARO_MAX_LAYERS)

\* SetLayerCount that also zeroes the records at and above the new count
TruncateTable(layers, count) ==
    [i \in LayerIdx |-> IF i >= ClampCount(count) THEN ZeroLayer ELSE layers[i]]

\* the table after SetLayerCount: the records are not touched
TableAfterSetCount(layers, count) == layers

SetLayerCountBody(count) ==
    /\ g_LayerCount' = ClampCount(count)
    /\ g_Layers' = TableAfterSetCount(g_Layers, count)
    /\ lastOp' = [op |-> "SetLayerCount", count |-> count]
    /\ UNCHANGED <<g_Initialized, g_LastError, g_Renderer, g_FrameBuffer, g_FrameNumber,
                   rendererVars, layerToMasks, lastUpdate, frameBegun, fbVars, mediaVars>>

Daro_SetLayerCount(count) == SetLayerCountBody(count) /\ UNCHANGED lockVars

\* an index check that clamps instead of rejecting
IndexClamped(index, isNull) == ~isNull

\* `if (index < 0 || index >= DARO_MAX_LAYERS || !layer) return;`
IndexAccepted(index, isNull) == ~(index < 0 \/ index >= DARO_MAX_LAYERS \/ isNull)

\* the slot an accepted index addresses
Slot(index) == Max(0, Min(index, DARO_MAX_LAYERS - 1))

\* `layer` is the record the pointer refers to, isNull a null pointer
UpdateLayerBody(index, isNull, layer) ==
    /\ IF IndexAccepted(index, isNull)
       THEN /\ g_Layers' = [g_Layers EXCEPT ![Slot(index)] = layer]
            /\ lastUpdate' = [i \in (DOMAIN lastUpdate) \cup {Slot(index)} |->
                                IF i = Slot(index) THEN layer ELSE lastUpdate[i]]
       ELSE UNCHANGED <<g_Layers, lastUpdate>>
    /\ lastOp' = [op |-> "UpdateLayer", index |-> index, isNull |-> isNull]
    /\ UNCHANGED <<g_Initialized, g_LastError, g_Renderer, g_FrameBuffer, g_LayerCount,
                   g_FrameNumber, rendererVars, layerToMasks, frameBegun, fbVars, mediaVars>>

Daro_UpdateLayer(index, isNull, layer) == UpdateLayerBody(index, isNull, layer) /\ UNCHANGED lockVars

\* `out` is what the caller's record holds after the call ("untouched": nothing
\* was written to it)
Daro_GetLayer(index, isNull) ==
    /\ lastOp' = [op |-> "GetLayer", index |-> index, isNull |-> isNull,
                  out |-> IF IndexAccepted(index, isNull)
                          THEN g_Layers[Slot(index)] ELSE "untouched"]
    /\ UNCHANGED <<g_Initialized, g_LastError, g_Renderer, g_FrameBuffer, g_Layers,
                   g_LayerCount, g_FrameNumber, rendererVars, layerToMasks, lastUpdate,
                   frameBegun, fbVars, mediaVars>>
    /\ UNCHANGED lockVars

ClearLayersBody ==
    /\ g_Layers' = ZeroTable
    /\ g_LayerCount' = 0
    /\ lastUpdate' = EmptyIndex
    /\ lastOp' = [op |-> "ClearLayers"]
    /\ UNCHANGED <<g_Initialized, g_LastError, g_Renderer, g_FrameBuffer, g_FrameNumber,
                   rendererVars, layerToMasks, frameBegun, fbVars, mediaVars>>

Daro_ClearLayers == ClearLayersBody /\ UNCHANGED lockVars

(***************************************************************************)
(* The pixels a draw touches.  The canvas is one row of CanvasW pixels; a  *)
(* layer's quad covers [posX - sizeX/2, posX + sizeX/2).                   *)
(***************************************************************************)
Canvas == 0 .. (CanvasW - 1)

Region(layer) ==
    {x \in Canvas : /\ layer.posX - (layer.sizeX \div 2) <= x
                    /\ x < layer.posX - (layer.sizeX \div 2) + layer.sizeX}

(***************************************************************************)
(* Daro_Render, the mask lookup (layerToMasks).                            *)
(***************************************************************************)
\* maskedLayerIds[j], j counted from 0
MaskedIdAt(layer, j) ==
    IF j < Len(layer.maskedLayerIds) THEN layer.maskedLayerIds[j + 1] ELSE 0

\* `if (maskedId >= 0)`
TargetIdAccepted(maskedId) == maskedId >= 0

\* `int safeCount = min(maskedLayerCount, DARO_MAX_LAYERS);`
SafeCount(layer) == Min(layer.maskedLayerCount, DARO_MAX_LAYERS)

\* the j of the inner loop: `for (int j = 0; j < safeCount; j++)`
TargetSlots(layer) == 0 .. (SafeCount(layer) - 1)

\* a lookup that enters active masks only
ListsTargetsIfActive(layer) ==
    layer.active # 0 /\ layer.layerType = DARO_TYPE_MASK /\ layer.maskedLayerCount > 0

\* `layerType == DARO_TYPE_MASK && maskedLayerCount > 0`
ListsTargets(layer) == layer.layerType = DARO_TYPE_MASK /\ layer.maskedLayerCount > 0

\* the ids for which mask `layer` does a push_back
PushedIds(layer) ==
    {MaskedIdAt(layer, j) : j \in {jj \in TargetSlots(layer) :
                                     TargetIdAccepted(MaskedIdAt(layer, jj))}}

\* layerToMasks[k] after the inner loop of mask i: one push_back(i) for every
\* slot that holds k
PushBacks(list, layer, i, k) ==
    list \o [x \in 1 .. Cardinality({j \in TargetSlots(layer) : MaskedIdAt(layer, j) = k})
               |-> i]

\* the lists of the previous frame are kept
KeepMaskLists(m) == m

\* `for (auto& pair : layerToMasks) pair.second.clear();` an entry whose list
\* is empty is treated like a missing one, so only non-empty entries are kept
ClearMaskLists(m) == EmptyIndex

\* layerToMasks[k] after the outer loop from mask i on
RECURSIVE ScanMasks(_, _, _, _, _)
ScanMasks(list, layers, n, i, k) ==
    IF i >= n THEN list
    ELSE ScanMasks(IF ListsTargets(layers[i]) THEN PushBacks(list, layers[i], i, k) ELSE list,
                   layers, n, i + 1, k)

\* the map after both loops, key by key
BuildMaskIndex(m, layers, n) ==
    LET cleared == ClearMaskLists(m)
        keys == (DOMAIN cleared) \cup
                UNION {PushedIds(layers[i]) : i \in {ii \in 0 .. (n - 1) : ListsTargets(layers[ii])}}
    IN [k \in keys |-> ScanMasks(IF k \in DOMAIN cleared THEN cleared[k] ELSE <<>>,
                                 layers, n, 0, k)]

(***************************************************************************)
(* The output merger: stencil states, the quad draw.                       *)
(***************************************************************************)
\* what one draw call of the frame did
Ev(idx, what, via, mask, px, outcome, clip) ==
    [idx |-> idx, what |-> what, via |-> via, mask |-> mask, px |-> px,
     outcome |-> outcome, clip |-> clip]

\* the draw is recorded with the output-merger state it was issued under
AddEv(st, ev) ==
    [st EXCEPT !.events =
        Append(st.events,
               [idx |-> ev.idx, what |-> ev.what, via |-> ev.via, mask |-> ev.mask,
                px |-> ev.px, outcome |-> ev.outcome, clip |-> ev.clip,
                dsv |-> st.dsv, dss |-> st.dss, ref |-> st.ref, blend |-> st.blend,
                stencil |-> st.stencil, d2d |-> st.d2d])]

\* DrawIndexed rasterizes the quad once BindCommonState has bound the shaders
Covered(st, layer) == IF st.common THEN Region(layer) ELSE {}

\* the stencil test of the bound depth-stencil state; without a depth-stencil
\* view the test always passes
StencilPass(st, x) ==
    IF ~st.dsv \/ st.dss \in {"Disabled", "WriteMask"} THEN TRUE
    ELSE IF st.dss = "TestInner" THEN st.stencil[x] = st.ref
    ELSE st.stencil[x] # st.ref

\* pixels of the colour target the quad writes
QuadColor(st, layer) ==
    IF st.blend = "Normal" THEN {x \in Covered(st, layer) : StencilPass(st, x)} ELSE {}

\* the stencil plane after the quad: WriteMask replaces with the reference
QuadStencil(st, layer) ==
    IF st.dsv /\ st.dss = "WriteMask"
    THEN [x \in Canvas |-> IF x \in Covered(st, layer) THEN st.ref ELSE st.stencil[x]]
    ELSE st.stencil

RenderRectangle(st, idx, layer, what, mask) ==
    AddEv([st EXCEPT !.stencil = QuadStencil(st, layer)],
          Ev(idx, what, "quad", mask, QuadColor(st, layer), "ok", "none"))

\* a frame in which the stencil plane is never cleared between two masks
KeepStencil(st) == st

\* ClearDepthStencilView(.., D3D11_CLEAR_STENCIL, .., 0)
ClearStencil(st) == [st EXCEPT !.stencil = [x \in Canvas |-> 0]]

RenderMaskToStencil(st, maskIndex, mask) ==
    LET s1 == [st EXCEPT !.dss = "WriteMask", !.ref = 1, !.blend = "NoColor"]
        s2 == RenderRectangle(s1, maskIndex, mask, "stencilWrite", maskIndex)
    IN [s2 EXCEPT !.blend = "Normal"]

(***************************************************************************)
(* The Direct2D draws.  env is the set of outcomes the environment may     *)
(* give a draw: "ok", "createFail" (a brush, text format or geometry       *)
(* cannot be created), "endFail" (EndDraw fails), "recreate" (EndDraw      *)
(* returns D2DERR_RECREATE_TARGET and the target is rebuilt),              *)
(* "recreateFail" (.. and the target cannot be rebuilt).                   *)
(***************************************************************************)
\* OMSetRenderTargets(1, &m_RTV, nullptr)
UnbindDSV(st) == [st EXCEPT !.dsv = FALSE]

\* OMSetRenderTargets(1, &m_RTV, m_DepthStencilView)
RebindDSV(st) == [st EXCEPT !.dsv = TRUE]

\* a recreation that leaves the cached text format in place
RecreateKeepsFormat(d, rebuilt) ==
    IF rebuilt THEN [FreshD2D EXCEPT !.textFormat = d.textFormat] ELSE NoD2D

\* DaroRenderer::RecreateD2DTarget: brushes, text format and target are
\* released; rebuilt: CreateDxgiSurfaceRenderTarget succeeds
RecreateD2DTarget(d, rebuilt) == IF rebuilt THEN FreshD2D ELSE NoD2D

\* EndDraw and what follows it up to the return of the draw routine
EndDraw(st, o, idx, what, via, mask, px, clip) ==
    LET after == IF o = "recreate"
                 THEN [st EXCEPT !.d2d = RecreateD2DTarget(st.d2d, TRUE)]
                 ELSE IF o = "recreateFail"
                      THEN [st EXCEPT !.d2d = RecreateD2DTarget(st.d2d, FALSE)]
                 ELSE st
    IN RebindDSV(AddEv(after, Ev(idx, what, via, mask, IF o = "ok" THEN px ELSE {}, o, clip)))

EndOutcomes(env) == env \cap {"ok", "endFail", "recreate", "recreateFail"}

RenderCircle(st, idx, layer, what, mask, env) ==
    IF ~st.d2d.target THEN {AddEv(st, Ev(idx, what, "circle", mask, {}, "noTarget", "none"))}
    ELSE LET u == UnbindDSV(st)
             b == [u EXCEPT !.d2d.shapeBrush = TRUE]
         IN (IF ~st.d2d.shapeBrush /\ "createFail" \in env
             THEN {AddEv(u, Ev(idx, what, "circle", mask, {}, "createFail", "none"))}
             ELSE {})
            \cup {EndDraw(b, o, idx, what, "circle", mask, Region(layer), "none")
                    : o \in EndOutcomes(env)}

\* the clip geometry RenderText builds for a mask: an ellipse when the mask
\* record is of Circle type, else a rectangle
ClipShape(mask) == IF mask.layerType = DARO_TYPE_CIRCLE THEN "ellipse" ELSE "rect"

\* the pixels of the text rectangle the clip lets through
Clipped(layer, mask) ==
    IF mask.maskMode = 1 THEN Region(layer) \ Region(mask)
    ELSE Region(layer) \cap Region(mask)

\* mask = -1: RenderText(layer) without a mask
RenderText(st, idx, layer, what, mask, layers, env) ==
    IF ~st.d2d.target THEN {AddEv(st, Ev(idx, what, "text", mask, {}, "noTarget", "none"))}
    ELSE IF ~layer.hasText THEN {AddEv(st, Ev(idx, what, "text", mask, {}, "noText", "none"))}
    ELSE LET u == UnbindDSV(st)
             needNewFormat == st.d2d.textFormat = NoFormat \/ st.d2d.textFormat # layer.fontKey
             f == [u EXCEPT !.d2d.textFormat = layer.fontKey]
             b == [f EXCEPT !.d2d.textBrush = TRUE]
             formatFails ==
                 IF needNewFormat /\ "createFail" \in env
                 THEN {AddEv([u EXCEPT !.d2d.textFormat = NoFormat],
                             Ev(idx, what, "text", mask, {}, "createFail", "none"))}
                 ELSE {}
             brushFails ==
                 IF ~st.d2d.textBrush /\ "createFail" \in env
                 THEN {AddEv(f, Ev(idx, what, "text", mask, {}, "createFail", "none"))}
                 ELSE {}
             clippedDraws ==
                 IF mask >= 0
                 THEN {EndDraw(b, o, idx, what, "text", mask, Clipped(layer, layers[mask]),
                               ClipShape(layers[mask])) : o \in EndOutcomes(env)}
                 ELSE {}
             \* no mask, or the clip geometry could not be created
             plainDraws ==
                 IF mask < 0 \/ "createFail" \in env
                 THEN {EndDraw(b, o, idx, what, "text", mask, Region(layer), "none")
                         : o \in EndOutcomes(env)}
                 ELSE {}
         IN formatFails \cup brushFails \cup clippedDraws \cup plainDraws

RenderBoundingBox(st, idx, layer, env) ==
    IF ~st.d2d.target THEN {st}
    ELSE LET u == UnbindDSV(st)
         IN (IF "createFail" \in env
             THEN {AddEv(u, Ev(idx, "bounds", "box", -1, {}, "createFail", "none"))}
             ELSE {})
            \cup {EndDraw(u, o, idx, "bounds", "box", -1, Region(layer), "none")
                    : o \in EndOutcomes(env)}

(***************************************************************************)
(* DaroRenderer::RenderLayer and DaroRenderer::RenderWithMasks.            *)
(***************************************************************************)
RenderLayer(st, idx, layer, what, mask, layers, env) ==
    IF layer.active = 0 THEN {st}
    ELSE IF layer.layerType = DARO_TYPE_TEXT
         THEN RenderText(st, idx, layer, what, -1, layers, env)
    ELSE IF layer.layerType = DARO_TYPE_CIRCLE
         THEN RenderCircle(st, idx, layer, what, mask, env)
    ELSE IF layer.layerType \in {DARO_TYPE_MASK, DARO_TYPE_GROUP} THEN {st}
    ELSE {RenderRectangle(st, idx, layer, what, mask)}

\* the state the stencil test is set to for a mask: `mask->maskMode == 0`
TestState(mask) == IF mask.maskMode = 0 THEN "TestInner" ELSE "TestOuter"

\* the mask a masked layer is rendered with: the last of its list
LastMask(list) == list[Len(list)]

\* `int maskIndex = it->second[0];`
FirstMask(list) == list[1]

\* the stencil protocol around a masked layer that is not text
RenderStencilMasked(st, idx, layer, maskIndex, layers, env) ==
    LET s1 == ClearStencil(st)
        s2 == RenderMaskToStencil(s1, maskIndex, layers[maskIndex])
        s3 == [s2 EXCEPT !.dss = TestState(layers[maskIndex]), !.ref = 1]
    IN {[s4 EXCEPT !.dss = "Disabled", !.ref = 0]
          : s4 \in RenderLayer(s3, idx, layer, "masked", maskIndex, layers, env)}

\* no draw at all for a Mask layer
SkipMaskLayer(st, idx, layer) == st

\* `RenderRectangle(layer);` for an active Mask layer of the table (preview)
RenderMaskLayer(st, idx, layer) == RenderRectangle(st, idx, layer, "maskPreview", -1)

\* an iteration that looks the layer up in layerToMasks before it tests the
\* active flag and the Group type
LayerStepListedFirst(st, idx, layers, n, ltm, show, env) ==
    LET layer == layers[idx]
        withBounds(S) == IF show
                         THEN UNION {RenderBoundingBox(s, idx, layer, env) : s \in S}
                         ELSE S
    IN IF layer.layerType = DARO_TYPE_MASK
       THEN IF layer.active = 0 THEN {st}
            ELSE withBounds({RenderMaskLayer(st, idx, layer)})
       ELSE IF layer.id \in DOMAIN ltm
            THEN LET maskIndex == FirstMask(ltm[layer.id])
                 IN IF maskIndex < 0 \/ maskIndex >= n THEN {st}
                    ELSE withBounds({RenderRectangle(st, idx, layer, "masked", maskIndex)})
       ELSE IF layer.active = 0 \/ layer.layerType = DARO_TYPE_GROUP THEN {st}
       ELSE withBounds(RenderLayer(st, idx, layer, "normal", -1, layers, env))

\* one iteration of the loop over the layers: the states it can end in
LayerStep(st, idx, layers, n, ltm, show, env) ==
    LET layer == layers[idx]
        withBounds(S) == IF show
                         THEN UNION {RenderBoundingBox(s, idx, layer, env) : s \in S}
                         ELSE S
    IN IF layer.active = 0 THEN {st}
       ELSE IF layer.layerType = DARO_TYPE_MASK
            THEN withBounds({RenderMaskLayer(st, idx, layer)})
       ELSE IF layer.layerType = DARO_TYPE_GROUP THEN {st}
       ELSE IF layer.id \in DOMAIN ltm
            THEN LET maskIndex == FirstMask(ltm[layer.id])
                 IN IF maskIndex < 0 \/ maskIndex >= n THEN {st}
                    ELSE IF layer.layerType = DARO_TYPE_TEXT
                         THEN withBounds(RenderText(st, idx, layer, "masked", maskIndex,
                                                    layers, env))
                    ELSE withBounds(RenderStencilMasked(st, idx, layer, maskIndex,
                                                        layers, env))
       ELSE withBounds(RenderLayer(st, idx, layer, "normal", -1, layers, env))

\* a draw of the iteration that led from st to s2 failed
DrawFailed(st, s2) ==
    \E k \in (Len(st.events) + 1) .. Len(s2.events) :
        s2.events[k].outcome \notin {"ok", "noText"}

\* a loop that leaves the frame at the first layer whose draw fails
RECURSIVE RenderFromAbort(_, _, _, _, _, _, _)
RenderFromAbort(st, idx, layers, n, ltm, show, env) ==
    IF idx >= n THEN {st}
    ELSE UNION {IF DrawFailed(st, s2) THEN {s2}
                ELSE RenderFromAbort(s2, idx + 1, layers, n, ltm, show, env)
                  : s2 \in LayerStep(st, idx, layers, n, ltm, show, env)}

\* the loop from layer idx on, entered in state st: the states it can end in
RECURSIVE RenderFrom(_, _, _, _, _, _, _)
RenderFrom(st, idx, layers, n, ltm, show, env) ==
    IF idx >= n THEN {st}
    ELSE UNION {RenderFrom(s2, idx + 1, layers, n, ltm, show, env)
                  : s2 \in LayerStep(st, idx, layers, n, ltm, show, env)}

\* the pipeline as RenderWithMasks finds it, after Clear has reset the stencil
\* plane and the depth-stencil state has been set to Disabled
FrameStart ==
    [dsv |-> omDSV, common |-> commonBound, dss |-> "Disabled", ref |-> 0,
     blend |-> "Normal", stencil |-> [x \in Canvas |-> 0], d2d |-> d2d, events |-> <<>>]

RenderWithMasks(layers, n, ltm, show, env) ==
    RenderFrom(FrameStart, 0, layers, n, ltm, show, env)

(***************************************************************************)
(* Times held in a `double`.  A non-negative double below 1 s that is a    *)
(* multiple of 2^-58 s is the pair <<hi, lo>> standing for                 *)
(* (hi * 2^28 + lo) * 2^-58 s; a binade [2^k, 2^(k+1)) keeps 53 bits.      *)
(***************************************************************************)
Limb == 2 ^ 28

\* the spacing, in units of 2^-58 s, of the doubles in the binade of x
Ulp(x) ==
    IF x[1] < 2 ^ 25 THEN 1
    ELSE IF x[1] < 2 ^ 26 THEN 2
    ELSE IF x[1] < 2 ^ 27 THEN 4
    ELSE IF x[1] < 2 ^ 28 THEN 8
    ELSE IF x[1] < 2 ^ 29 THEN 16 ELSE 32

\* round to nearest, ties to even: x is the exact value cut to a multiple of
\* 2^-58, frac what was cut off (0: nothing, 1: less than half a unit, 2: half
\* a unit, 3: more)
RoundDouble(x, frac) ==
    LET g == Ulp(x)
        q == x[2] \div g
        r == x[2] % g
        h == g \div 2
        up == IF g = 1
              THEN frac = 3 \/ (frac = 2 /\ q % 2 = 1)
              ELSE r > h \/ (r = h /\ (frac > 0 \/ q % 2 = 1))
        l == (q + (IF up THEN 1 ELSE 0)) * g
    IN IF l >= Limb THEN <<x[1] + 1, l - Limb>> ELSE <<x[1], l>>

\* exact sum, difference and order of two such values
BigAdd(x, y) == <<x[1] + y[1] + ((x[2] + y[2]) \div Limb), (x[2] + y[2]) % Limb>>
BigSub(x, y) ==
    IF x[2] >= y[2] THEN <<x[1] - y[1], x[2] - y[2]>>
    ELSE <<x[1] - y[1] - 1, x[2] + Limb - y[2]>>
BigGeq(x, y) == x[1] > y[1] \/ (x[1] = y[1] /\ x[2] >= y[2])

\* `x + y`, `x - y` in double arithmetic
DoubleAdd(x, y) == RoundDouble(BigAdd(x, y), 0)
DoubleSub(x, y) == RoundDouble(BigSub(x, y), 0)

\* k more binary digits of r / d after <<digits so far, remainder>>
RECURSIVE Quot(_, _, _)
Quot(qr, d, k) ==
    IF k = 0 THEN qr
    ELSE LET b == IF 2 * qr[2] >= d THEN 1 ELSE 0
         IN Quot(<<2 * qr[1] + b, 2 * qr[2] - b * d>>, d, k - 1)

\* `(double)n / d` for integers with n = 0 or 1/64 <= n/d < 1
DoubleDiv(n, d) ==
    LET hi == Quot(<<0, n>>, d, 30)
        lo == Quot(<<0, hi[2]>>, d, 28)
        nx == Quot(<<0, lo[2]>>, d, 1)
        frac == 2 * nx[1] + (IF nx[2] > 0 THEN 1 ELSE 0)
    IN RoundDouble(<<hi[1], lo[1]>>, frac)

DoubleZero == <<0, 0>>

\* `y * 1.5` in double arithmetic
DoubleTimesOneAndHalf(y) ==
    LET t == BigAdd(y, BigAdd(y, y))
        half == <<t[1] \div 2, (t[2] + (t[1] % 2) * Limb) \div 2>>
    IN RoundDouble(half, IF t[2] % 2 = 1 THEN 2 ELSE 0)

\* floor(x / y) and what x leaves of y, for x / y below 128
RECURSIVE BigDivMod(_, _, _)
BigDivMod(x, y, n) ==
    IF BigGeq(x, y) THEN BigDivMod(BigSub(x, y), y, n + 1) ELSE <<n, x>>

\* the k with 2^k < n <= 2^(k+1), for 1 <= n <= 128
Binade(n) ==
    IF n <= 1 THEN -1 ELSE IF n <= 2 THEN 0 ELSE IF n <= 4 THEN 1 ELSE IF n <= 8 THEN 2
    ELSE IF n <= 16 THEN 3 ELSE IF n <= 32 THEN 4 ELSE IF n <= 64 THEN 5 ELSE 6

\* `(int)(x / y)` with the quotient in double arithmetic: the quotient rounds
\* up to the next whole number n + 1 when it is within half a unit in the last
\* place below it
DoubleDivToInt(x, y) ==
    LET qr == BigDivMod(x, y, 0)
        n == qr[1]
        short == BigSub(y, qr[2])
    IN IF short[1] = 0 /\ short[2] <= y[1] \div (2 ^ (25 - Binade(n + 1)))
       THEN n + 1
       ELSE n

(***************************************************************************)
(* VideoPlayer (VideoPlayer.cpp).  A player is a record of its members;    *)
(* `stream` is the state of the open backend: the frames the file holds,   *)
(* the index `pos` of the frame the next read returns, the 100 ns between  *)
(* two sample times, the key-frame distance, and the decoder's own         *)
(* end-of-stream flag.  `tex` is the stream index of the frame in the      *)
(* texture, `touched` the backends called since the load; m_FilePath is    *)
(* the file loaded and m_LastFrameTime counts the performance-counter      *)
(* ticks from the load, during which no time passes; `counterAhead` is     *)
(* how far the performance counter has advanced since m_LastFrameTime was  *)
(* read.  A file is what the two backends make of it: `mf` and `ff` say    *)
(* whether the backend accepts it and what it probes.                      *)
(***************************************************************************)
NoFile == [path |-> "null"]
NoStream == [frames |-> 0, pos |-> 0, tick |-> 0, gop |-> 1, eof |-> FALSE]

\* the members as the constructor leaves them
NewPlayer ==
    [m_Loaded |-> FALSE, m_UsingFFmpeg |-> FALSE, m_Reader |-> FALSE,
     m_FFmpegDecoder |-> FALSE, m_Width |-> 0, m_FrameRate |-> 0, m_TotalFrames |-> 0,
     m_FrameDuration |-> DoubleZero, m_CurrentFrame |-> 0, m_Playing |-> FALSE,
     m_Loop |-> FALSE, m_EndOfStream |-> FALSE, m_AccumulatedTime |-> DoubleZero,
     m_LastFrameTime |-> 0, counterAhead |-> 0, m_FilePath |-> NoFile, stream |-> NoStream,
     tex |-> -1, touched |-> {}]

\* `m_CurrentFrame = (int)(timestamp / 1e7 * m_FrameRate)`; for the sample
\* times and rates of the files below the double product truncates to this
FrameOfTimestamp(ts, rate) == (ts * rate) \div 10000000

\* VideoPlayer::DecodeNextFrame (Media Foundation); o is what ReadSample
\* answers when the stream has a sample left: "ok", or "fail" for a failed
\* call or a null sample
DecodeNextFrame(p0, o) ==
    LET p == [p0 EXCEPT !.touched = @ \cup {"MF"}]
    IN IF ~p0.m_Reader THEN [p |-> p0, ok |-> FALSE]
    ELSE IF o = "fail" THEN [p |-> p, ok |-> FALSE]
    ELSE IF p.stream.pos >= p.stream.frames
    THEN [p |-> [p EXCEPT !.m_EndOfStream = TRUE], ok |-> FALSE]
    ELSE [p |-> [p EXCEPT !.tex = p.stream.pos,
                          !.m_CurrentFrame = FrameOfTimestamp(p.stream.pos * p.stream.tick,
                                                              p.m_FrameRate),
                          !.stream.pos = @ + 1],
          ok |-> TRUE]

\* FFmpegDecoder::DecodeNextFrame followed, when it returns true, by the
\* caller's CopyBufferToTexture; "fail": avcodec_receive_frame reports an
\* error for the packet read
FFmpegDecode(p0, o) ==
    LET p == [p0 EXCEPT !.touched = @ \cup {"FFmpeg"}]
    IN IF ~p0.m_FFmpegDecoder THEN [p |-> p0, ok |-> FALSE]
    ELSE IF p.stream.eof THEN [p |-> p, ok |-> FALSE]
    ELSE IF p.stream.pos >= p.stream.frames
    THEN [p |-> [p EXCEPT !.stream.eof = TRUE], ok |-> FALSE]
    ELSE IF o = "fail" THEN [p |-> [p EXCEPT !.stream.pos = @ + 1], ok |-> FALSE]
    ELSE [p |-> [p EXCEPT !.tex = p.stream.pos, !.stream.pos = @ + 1], ok |-> TRUE]

\* `max(0, min(frame, m_TotalFrames > 0 ? m_TotalFrames - 1 : 0))`
ClampFrame(frame, total) == Max(0, Min(frame, IF total > 0 THEN total - 1 ELSE 0))

\* a backend seek lands on the key frame at or before the target
Landing(p, frame) == frame - (frame % p.stream.gop)

\* VideoPlayer::SeekToFrameInternal; env.seek, env.dec: what the backend may
\* answer to the seek and to the decode.  `seek`: the backend seek was made
\* and succeeded; `calls`: decode calls made; `got`: frames decoded
SeekToFrameInternal(p, frame0, env) ==
    LET frame == ClampFrame(frame0, p.m_TotalFrames)
        none == [p |-> p, seek |-> FALSE, calls |-> 0, got |-> 0]
    IN IF ~p.m_Loaded THEN {none}
       ELSE IF p.m_UsingFFmpeg
       THEN IF p.m_FFmpegDecoder
            THEN {LET sought == IF s = "ok"
                                THEN [p EXCEPT !.stream.pos = Landing(p, frame),
                                               !.stream.eof = FALSE,
                                               !.touched = @ \cup {"FFmpeg"}]
                                ELSE [p EXCEPT !.touched = @ \cup {"FFmpeg"}]
                      r == FFmpegDecode(sought, o)
                  IN [p |-> [r.p EXCEPT !.m_CurrentFrame = frame, !.m_EndOfStream = FALSE],
                      seek |-> s = "ok", calls |-> 1, got |-> IF r.ok THEN 1 ELSE 0]
                    : s \in env.seek, o \in env.dec}
            ELSE {[none EXCEPT !.p = [p EXCEPT !.m_CurrentFrame = frame,
                                               !.m_EndOfStream = FALSE]]}
       ELSE IF ~p.m_Reader THEN {none}
       ELSE {IF s = "ok"
             THEN LET r == DecodeNextFrame([p EXCEPT !.stream.pos = Landing(p, frame),
                                                     !.m_CurrentFrame = frame,
                                                     !.m_EndOfStream = FALSE], o)
                  IN [p |-> r.p, seek |-> TRUE, calls |-> 1, got |-> IF r.ok THEN 1 ELSE 0]
             ELSE [none EXCEPT !.p.touched = @ \cup {"MF"}]
               : s \in env.seek, o \in env.dec}

\* an end-of-stream branch that stops whatever m_Loop says
StopAtEnd(p, env) == {[p |-> [p EXCEPT !.m_Playing = FALSE], seek |-> FALSE]}

\* an end-of-stream branch that rewinds whatever m_Loop says
RewindAtEnd(p, env) ==
    {[p |-> [r.p EXCEPT !.m_Playing = p.m_Loop, !.m_EndOfStream = FALSE], seek |-> r.seek]
       : r \in SeekToFrameInternal(p, 0, env)}

\* the end-of-stream branch of both decode loops of UpdateFrame: the player
\* it leaves, and whether the backend seek to frame 0 was made and succeeded
OnEndOfStream(p, env) ==
    IF p.m_Loop
    THEN {[p |-> [r.p EXCEPT !.m_Playing = TRUE, !.m_EndOfStream = FALSE], seek |-> r.seek]
            : r \in SeekToFrameInternal(p, 0, env)}
    ELSE {[p |-> [p EXCEPT !.m_Playing = FALSE], seek |-> FALSE]}

\* the FFmpeg decode loop of UpdateFrame, entered in st; `frames`: frames
\* decoded so far by the loop, `tries`: decode calls, `eos`: the loop ended in
\* the end-of-stream branch, `seek`: with a backend seek that succeeded
RECURSIVE FFmpegLoop(_, _)
FFmpegLoop(st, env) ==
    IF ~(BigGeq(st.p.m_AccumulatedTime, st.p.m_FrameDuration) /\ ~st.p.m_EndOfStream)
    THEN {st}
    ELSE LET p1 == [st.p EXCEPT !.m_AccumulatedTime = DoubleSub(@, st.p.m_FrameDuration)]
         IN UNION {LET r == FFmpegDecode(p1, o)
                   IN IF r.ok
                      THEN FFmpegLoop([st EXCEPT !.p = [r.p EXCEPT !.m_CurrentFrame = @ + 1],
                                                 !.frames = @ + 1, !.tries = @ + 1], env)
                      ELSE IF r.p.stream.eof
                      THEN {[st EXCEPT !.p = q.p, !.tries = @ + 1, !.eos = TRUE,
                                       !.seek = q.seek]
                              : q \in OnEndOfStream([r.p EXCEPT !.m_EndOfStream = TRUE], env)}
                      ELSE FFmpegLoop([st EXCEPT !.p = r.p, !.tries = @ + 1], env)
                     : o \in env.dec}

\* the Media Foundation decode loop of UpdateFrame
RECURSIVE MFLoop(_, _)
MFLoop(st, env) ==
    IF ~(BigGeq(st.p.m_AccumulatedTime, st.p.m_FrameDuration) /\ ~st.p.m_EndOfStream)
    THEN {st}
    ELSE LET p1 == [st.p EXCEPT !.m_AccumulatedTime = DoubleSub(@, st.p.m_FrameDuration)]
         IN UNION {LET r == DecodeNextFrame(p1, o)
                       st1 == [st EXCEPT !.p = r.p, !.tries = @ + 1,
                                         !.frames = @ + (IF r.ok THEN 1 ELSE 0)]
                   IN IF r.p.m_EndOfStream
                      THEN {[st1 EXCEPT !.p = q.p, !.eos = TRUE, !.seek = q.seek]
                              : q \in OnEndOfStream(r.p, env)}
                      ELSE MFLoop(st1, env)
                     : o \in env.dec}

\* the value of QueryPerformanceFrequency
PerfFrequency == 10000000

\* VideoPlayer::UpdateFrame, `ticks` performance-counter ticks after the
\* previous update of the players, `sinceLast` ticks after m_LastFrameTime
\* (recorded as `ticks`); `ran`: the call got past the loaded/playing check,
\* `was`: m_AccumulatedTime at the call, `elapsed`: the elapsed time it
\* computed, `slots`: m_AccumulatedTime after `m_AccumulatedTime += elapsed`
UpdateFrame(p, ticks, env) ==
    LET sinceLast == p.counterAhead + ticks
        elapsed == DoubleDiv(sinceLast, PerfFrequency)
        acc == DoubleAdd(p.m_AccumulatedTime, elapsed)
        st == [p |-> [p EXCEPT !.counterAhead = sinceLast], ran |-> FALSE,
               was |-> p.m_AccumulatedTime, ticks |-> sinceLast,
               elapsed |-> elapsed, slots |-> acc, frames |-> 0, tries |-> 0, eos |-> FALSE,
               seek |-> FALSE]
        st1 == [st EXCEPT !.p.m_AccumulatedTime = acc, !.p.m_LastFrameTime = @ + sinceLast,
                          !.p.counterAhead = 0, !.ran = TRUE]
    IN IF ~p.m_Loaded \/ ~p.m_Playing THEN {st}
       ELSE IF ~BigGeq(acc, p.m_FrameDuration) THEN {st1}
       ELSE IF p.m_UsingFFmpeg /\ p.m_FFmpegDecoder
       THEN FFmpegLoop(st1, env)
       ELSE MFLoop(st1, env)

\* a Play that does not read the performance counter
PlayKeepsLastFrameTime(p) ==
    IF ~p.m_Loaded THEN p
    ELSE [p EXCEPT !.m_Playing = TRUE, !.m_AccumulatedTime = DoubleZero]

\* VideoPlayer::Play, Pause, Stop (Play reads the performance counter into
\* m_LastFrameTime)
Play(p) ==
    IF ~p.m_Loaded THEN p
    ELSE [p EXCEPT !.m_Playing = TRUE, !.m_AccumulatedTime = DoubleZero,
                   !.m_LastFrameTime = @ + p.counterAhead, !.counterAhead = 0]

Pause(p) == [p EXCEPT !.m_Playing = FALSE]

Stop(p, env) ==
    LET p0 == [p EXCEPT !.m_Playing = FALSE]
    IN IF ~p.m_Loaded THEN {p0}
       ELSE IF p.m_UsingFFmpeg
       THEN IF p.m_FFmpegDecoder
            THEN {LET sought == IF s = "ok"
                                THEN [p0 EXCEPT !.stream.pos = 0, !.stream.eof = FALSE,
                                                !.touched = @ \cup {"FFmpeg"}]
                                ELSE [p0 EXCEPT !.touched = @ \cup {"FFmpeg"}]
                  IN [FFmpegDecode(sought, o).p EXCEPT !.m_CurrentFrame = 0,
                                                       !.m_EndOfStream = FALSE]
                    : s \in env.seek, o \in env.dec}
            ELSE {[p0 EXCEPT !.m_CurrentFrame = 0, !.m_EndOfStream = FALSE]}
       ELSE IF ~p.m_Reader THEN {p0}
       ELSE {IF s = "ok"
             THEN DecodeNextFrame([p0 EXCEPT !.stream.pos = 0, !.m_CurrentFrame = 0,
                                             !.m_EndOfStream = FALSE], o).p
             ELSE [p0 EXCEPT !.touched = @ \cup {"MF"}]
               : s \in env.seek, o \in env.dec}

\* VideoPlayer::LoadVideoMF on a player just unloaded: the player it leaves
\* and whether it succeeded; o: the answer to the decode of the first frame
LoadVideoMF(p, file, o) ==
    IF file.mf.ok
    THEN LET p1 == [p EXCEPT !.m_Reader = TRUE, !.m_Width = file.mf.width,
                             !.m_FrameRate = file.mf.rate,
                             !.m_FrameDuration = DoubleDiv(1, file.mf.rate),
                             !.m_TotalFrames = file.mf.frames,
                             !.stream = [frames |-> file.mf.frames, pos |-> 0,
                                         tick |-> file.mf.tick, gop |-> file.gop,
                                         eof |-> FALSE],
                             !.m_Loaded = TRUE, !.m_UsingFFmpeg = FALSE,
                             !.m_CurrentFrame = 0, !.m_EndOfStream = FALSE,
                             !.m_AccumulatedTime = DoubleZero, !.m_LastFrameTime = 0,
                             !.counterAhead = 0,
                             !.touched = {}]
         IN [p |-> [DecodeNextFrame(p1, o).p EXCEPT !.m_Playing = TRUE, !.m_Loop = TRUE],
             ok |-> TRUE]
    ELSE IF file.mf.probed
    THEN [p |-> [p EXCEPT !.m_FrameRate = file.mf.rate,
                          !.m_FrameDuration = DoubleDiv(1, file.mf.rate),
                          !.m_TotalFrames = file.mf.frames],
          ok |-> FALSE]
    ELSE [p |-> p, ok |-> FALSE]

\* VideoPlayer::LoadVideoFFmpeg
LoadVideoFFmpeg(p, file, o) ==
    IF ~file.ff.ok THEN [p |-> p, ok |-> FALSE]
    ELSE LET p1 == [p EXCEPT !.m_FFmpegDecoder = TRUE, !.m_Width = file.ff.width,
                             !.m_FrameRate = file.ff.rate,
                             !.m_FrameDuration = IF file.ff.rate > 0
                                                 THEN DoubleDiv(1, file.ff.rate)
                                                 ELSE DoubleDiv(1, 25),
                             !.m_TotalFrames = file.ff.frames,
                             !.stream = [frames |-> file.ff.frames, pos |-> 0,
                                         tick |-> 0, gop |-> file.gop, eof |-> FALSE],
                             !.m_Loaded = TRUE, !.m_UsingFFmpeg = TRUE,
                             !.m_CurrentFrame = 0, !.m_EndOfStream = FALSE,
                             !.m_AccumulatedTime = DoubleZero, !.m_LastFrameTime = 0,
                             !.counterAhead = 0,
                             !.touched = {}]
         IN [p |-> [FFmpegDecode(p1, o).p EXCEPT !.m_Playing = TRUE, !.m_Loop = TRUE],
             ok |-> TRUE]

\* a LoadVideo that asks FFmpeg first
LoadVideoFFmpegFirst(p, file, o) ==
    IF file.path # "ok" THEN [p |-> p, ok |-> FALSE, tried |-> <<>>]
    ELSE LET ff == LoadVideoFFmpeg([p EXCEPT !.m_FilePath = file], file, o)
             mf == LoadVideoMF(ff.p, file, o)
         IN IF ff.ok THEN [p |-> ff.p, ok |-> TRUE, tried |-> <<"FFmpeg">>]
            ELSE [p |-> mf.p, ok |-> mf.ok, tried |-> <<"FFmpeg", "MF">>]

\* VideoPlayer::LoadVideo: Media Foundation first, FFmpeg when it failed;
\* `tried`: the backends asked, in order
LoadVideo(p, file, o) ==
    IF file.path # "ok" THEN [p |-> p, ok |-> FALSE, tried |-> <<>>]
    ELSE LET mf == LoadVideoMF([p EXCEPT !.m_FilePath = file], file, o)
             ff == LoadVideoFFmpeg(mf.p, file, o)
         IN IF mf.ok THEN [p |-> mf.p, ok |-> TRUE, tried |-> <<"MF">>]
            ELSE [p |-> ff.p, ok |-> ff.ok, tried |-> <<"MF", "FFmpeg">>]

\* backends that answer every call with success; backends that may fail
NoFailure == [dec |-> {"ok"}, seek |-> {"ok"}]
MayFail == [dec |-> {"ok", "fail"}, seek |-> {"ok", "fail"}]

(***************************************************************************)
(* VideoManager (VideoPlayer.cpp) behind the video entry points of         *)
(* DaroEngine.cpp and their DaroRenderer wrappers.                         *)
(***************************************************************************)
MAX_LOADED_VIDEOS == 32

\* the engine and renderer state that the media entry points leave alone
engineKept == <<g_Initialized, g_LastError, g_Renderer, g_FrameBuffer, g_Layers, g_LayerCount,
                g_FrameNumber, rendererVars, layerToMasks, lastUpdate, frameBegun>>

\* `m_Players.find(videoId)` finds a player
HasPlayer(id) == g_Initialized /\ g_Renderer /\ id \in DOMAIN m_Players

\* a limit that lets one video more in
OverCapacity(n) == n > MAX_LOADED_VIDEOS

\* `m_Players.size() >= MAX_LOADED_VIDEOS`
AtCapacity(n) == n >= MAX_LOADED_VIDEOS

\* a LoadVideo that hands out the next id whether the player loaded or not
IdAnyway(loaded, id) == id

\* what VideoManager::LoadVideo returns once the player has been asked:
\* `return 0;` if it failed, else `return id;`
LoadResult(loaded, id) == IF loaded THEN id ELSE 0

\* file.path: "null" for a null pointer, "bad" for a path LoadVideo refuses
\* before it asks a backend, else "ok"; mfStartup: MFStartup succeeds; o: the
\* answer to the decode of the first frame
Daro_LoadVideo(file, mfStartup, o) ==
    LET started == vm_Initialized \/ mfStartup
        load == LoadVideo(NewPlayer, file, o)
        id == IF m_NextVideoId <= 0 THEN 1 ELSE m_NextVideoId
        ret(v, tried) == [op |-> "LoadVideo", ret |-> v, file |-> file, tried |-> tried]
    IN /\ IF ~(g_Initialized /\ g_Renderer)
          THEN /\ lastOp' = ret(-1, <<>>)
               /\ UNCHANGED videoVars
          ELSE /\ vm_Initialized' = started
               /\ IF \/ ~started
                     \/ file.path = "null"
                     \/ AtCapacity(Cardinality(DOMAIN m_Players))
                  THEN /\ lastOp' = ret(0, <<>>)
                       /\ UNCHANGED <<m_Players, m_NextVideoId>>
                  ELSE IF ~load.ok
                  THEN /\ lastOp' = ret(LoadResult(FALSE, id), load.tried)
                       /\ UNCHANGED <<m_Players, m_NextVideoId>>
                  ELSE /\ m_Players' = [k \in DOMAIN m_Players \cup {id} |->
                                          IF k = id THEN load.p ELSE m_Players[k]]
                       /\ m_NextVideoId' = IF m_NextVideoId <= 0 THEN 1
                                           ELSE IF m_NextVideoId = INT_MAX THEN INT_MIN
                                           ELSE m_NextVideoId + 1
                       /\ lastOp' = ret(LoadResult(TRUE, id), load.tried)
       /\ UNCHANGED <<engineKept, fbVars, rendererMedia, timingVars>>
    /\ UNCHANGED lockVars

Daro_UnloadVideo(id) ==
    /\ m_Players' = [k \in (DOMAIN m_Players) \ (IF HasPlayer(id) THEN {id} ELSE {}) |->
                       m_Players[k]]
    /\ lastOp' = [op |-> "UnloadVideo", id |-> id]
    /\ UNCHANGED <<engineKept, fbVars, rendererMedia, vm_Initialized, m_NextVideoId,
                   timingVars>>
    /\ UNCHANGED lockVars

\* Daro_PlayVideo, Daro_PauseVideo, Daro_SetVideoLoop: `call` names the entry
\* point, `loop` is the argument of SetVideoLoop
Daro_VideoControl(call, id, loop) ==
    /\ m_Players' = IF ~HasPlayer(id) THEN m_Players
                    ELSE [m_Players EXCEPT ![id] =
                            IF call = "PlayVideo" THEN Play(@)
                            ELSE IF call = "PauseVideo" THEN Pause(@)
                            ELSE [@ EXCEPT !.m_Loop = loop]]
    /\ lastOp' = [op |-> call, id |-> id]
    /\ UNCHANGED <<engineKept, fbVars, rendererMedia, vm_Initialized, m_NextVideoId,
                   timingVars>>
    /\ UNCHANGED lockVars

Daro_StopVideo(id, env) ==
    /\ IF HasPlayer(id)
       THEN \E q \in Stop(m_Players[id], env) : m_Players' = [m_Players EXCEPT ![id] = q]
       ELSE UNCHANGED m_Players
    /\ lastOp' = [op |-> "StopVideo", id |-> id]
    /\ UNCHANGED <<engineKept, fbVars, rendererMedia, vm_Initialized, m_NextVideoId,
                   timingVars>>
    /\ UNCHANGED lockVars

\* VideoPlayer::SeekToFrame behind Daro_SeekVideo
Daro_SeekVideo(id, frame, env) ==
    /\ IF HasPlayer(id) /\ m_Players[id].m_Loaded
       THEN \E r \in SeekToFrameInternal(m_Players[id], frame, env) :
               /\ m_Players' = [m_Players EXCEPT ![id] = r.p]
               /\ lastOp' = [op |-> "SeekVideo", id |-> id, frame |-> frame, found |-> TRUE,
                             seek |-> r.seek, calls |-> r.calls, got |-> r.got]
       ELSE /\ lastOp' = [op |-> "SeekVideo", id |-> id, frame |-> frame, found |-> FALSE]
            /\ UNCHANGED m_Players
    /\ UNCHANGED <<engineKept, fbVars, rendererMedia, vm_Initialized, m_NextVideoId,
                   timingVars>>
    /\ UNCHANGED lockVars

\* Daro_IsVideoPlaying, Daro_GetVideoFrame, Daro_GetVideoTotalFrames
Daro_VideoQuery(id) ==
    /\ lastOp' = [op |-> "VideoQuery", id |-> id,
                  playing |-> IF HasPlayer(id) THEN m_Players[id].m_Playing ELSE FALSE,
                  frame |-> IF HasPlayer(id) THEN m_Players[id].m_CurrentFrame ELSE 0,
                  total |-> IF HasPlayer(id) THEN m_Players[id].m_TotalFrames ELSE 0]
    /\ UNCHANGED <<engineKept, fbVars, mediaVars>>
    /\ UNCHANGED lockVars

\* VideoManager::UpdateAll from the player with the lowest id in `ids` on:
\* the tables it can end with, `upd` what UpdateFrame did per player
RECURSIVE UpdateAll(_, _, _, _)
UpdateAll(st, ids, ticks, env) ==
    IF ids = {} THEN {st}
    ELSE LET id == CHOOSE k \in ids : \A j \in ids : k <= j
         IN UNION {UpdateAll([players |-> [st.players EXCEPT ![id] = r.p],
                              upd |-> [k \in DOMAIN st.upd \cup {id} |->
                                         IF k = id
                                         THEN [ran |-> r.ran, ticks |-> r.ticks,
                                               was |-> r.was, slots |-> r.slots,
                                               frames |-> r.frames, tries |-> r.tries,
                                               eos |-> r.eos, seek |-> r.seek]
                                         ELSE st.upd[k]]],
                             ids \ {id}, ticks, env)
                     : r \in UNION {UpdateFrame(st.players[id], t, env) : t \in ticks}}

(***************************************************************************)
(* The frame cycle: Daro_BeginFrame, Daro_Render, Daro_SetShowBounds.      *)
(***************************************************************************)
\* a CheckDeviceLost that reports the device as it is now
DeviceLostNow(lost, removed) == removed

\* DaroRenderer::CheckDeviceLost; `removed`: GetDeviceRemovedReason() reports
\* a removed device
CheckDeviceLost(lost, removed) == lost \/ removed

\* ticks: the performance-counter ticks a player may find elapsed since its
\* last update; env: what the video backends may answer
BeginFrameBody(removed, ticks, env) ==
    /\ IF g_Initialized /\ g_Renderer
       THEN /\ m_DeviceLost' = CheckDeviceLost(m_DeviceLost, removed)
            /\ IF CheckDeviceLost(m_DeviceLost, removed)
               THEN /\ lastOp' = [op |-> "BeginFrame", upd |-> EmptyIndex]
                    /\ UNCHANGED <<omDSV, commonBound, frameBegun, m_Players>>
               ELSE /\ omDSV' = TRUE
                    /\ commonBound' = TRUE
                    /\ frameBegun' = TRUE
                    /\ \E fin \in UpdateAll([players |-> m_Players, upd |-> EmptyIndex],
                                            DOMAIN m_Players, ticks, env) :
                          /\ m_Players' = fin.players
                          /\ lastOp' = [op |-> "BeginFrame", upd |-> fin.upd]
       ELSE /\ lastOp' = [op |-> "BeginFrame", upd |-> EmptyIndex]
            /\ UNCHANGED <<m_DeviceLost, omDSV, commonBound, frameBegun, m_Players>>
    /\ UNCHANGED <<g_Initialized, g_LastError, g_Renderer, g_FrameBuffer, g_Layers,
                   g_LayerCount, g_FrameNumber, m_ShowBounds, d2d, layerToMasks,
                   lastUpdate, fbVars, rendererMedia, vm_Initialized, m_NextVideoId,
                   timingVars>>

Daro_BeginFrame(removed, ticks, env) == BeginFrameBody(removed, ticks, env) /\ UNCHANGED lockVars

Daro_SetShowBounds(show) ==
    /\ IF g_Initialized /\ g_Renderer
       THEN m_ShowBounds' = show
       ELSE UNCHANGED m_ShowBounds
    /\ lastOp' = [op |-> "SetShowBounds", show |-> show]
    /\ UNCHANGED <<g_Initialized, g_LastError, g_Renderer, g_FrameBuffer, g_Layers,
                   g_LayerCount, g_FrameNumber, m_DeviceLost, omDSV, commonBound, d2d,
                   layerToMasks, lastUpdate, frameBegun, fbVars, mediaVars>>
    /\ UNCHANGED lockVars

\* `memcpy(localLayers, g_Layers, sizeof(DaroLayer) * localLayerCount);`
Snapshot(layers, count) == [i \in 0 .. (count - 1) |-> layers[i]]

\* env: what the environment may answer to the Direct2D draws of this frame;
\* mapOk, rowPitch: the result of MapStaging.  The call ends by entering
\* DaroFrameBuffer::Write, which the writer steps carry on.
RenderBody(localLayers, n, env, mapOk, rowPitch) ==
    /\ wpc = "idle"
    /\ IF g_Initialized /\ g_Renderer
       THEN LET index == BuildMaskIndex(layerToMasks, localLayers, n)
            IN /\ layerToMasks' = index
               /\ \E fin \in RenderWithMasks(localLayers, n, index, m_ShowBounds, env) :
                     /\ omDSV' = fin.dsv
                     /\ d2d' = fin.d2d
                     /\ lastOp' = [op |-> "Render", ran |-> TRUE, n |-> n,
                                   layers |-> localLayers, show |-> m_ShowBounds,
                                   begun |-> frameBegun, events |-> fin.events,
                                   clear |-> TRUE, copy |-> TRUE, map |-> mapOk,
                                   write |-> mapOk /\ g_FrameBuffer,
                                   dss |-> fin.dss, blend |-> fin.blend]
               /\ frameBegun' = FALSE
               /\ IF mapOk /\ g_FrameBuffer
                  THEN WriteEntry(FALSE, rowPitch, g_FrameNumber)
                  ELSE UNCHANGED <<wpc, w, wGhost>>
       ELSE /\ lastOp' = [op |-> "Render", ran |-> FALSE]
            /\ UNCHANGED <<layerToMasks, omDSV, d2d, frameBegun, wpc, w, wGhost>>
    /\ UNCHANGED <<g_Initialized, g_LastError, g_Renderer, g_FrameBuffer, g_Layers,
                   g_LayerCount, g_FrameNumber, m_DeviceLost, m_ShowBounds, commonBound,
                   lastUpdate, mediaVars>>
    /\ UNCHANGED <<m_IsLocked, hdr, m_pPixels, m_Mutex, cvSignal, rpc>>

\* the call on its own: the snapshot is the table at the call
Daro_Render(env, mapOk, rowPitch) ==
    /\ RenderBody(Snapshot(g_Layers, g_LayerCount), g_LayerCount, env, mapOk, rowPitch)
    /\ UNCHANGED lockVars

(***************************************************************************)
(* The rest of the frame cycle: Daro_EndFrame, Daro_Present; the Spout     *)
(* sender, the texture cache and the device status.                        *)
(***************************************************************************)
\* `g_DroppedFrames.fetch_add(n)` on a 32-bit int
FetchAdd32(v, n) == IF v > INT_MAX - n THEN INT_MIN + (n - (INT_MAX - v) - 1) ELSE v + n

\* the count Daro_EndFrame adds `ticks` performance-counter ticks after the
\* last frame: `elapsed > targetFrameTime * 1.5`, then
\* `(int)(elapsed / targetFrameTime) - 1` if positive, with elapsed =
\* (double)ticks / g_PerfFreq and targetFrameTime = 1.0 / fps, for a whole
\* fps up to 64 and less than a second (no frame is late for fps = 0, and the
\* count is negative for fps < 0)
DroppedCount(ticks, fps) ==
    IF fps <= 0 THEN 0
    ELSE LET elapsed == DoubleDiv(ticks, PerfFrequency)
             targetFrameTime == DoubleDiv(1, fps)
             late == ~BigGeq(DoubleTimesOneAndHalf(targetFrameTime), elapsed)
             droppedCount == DoubleDivToInt(elapsed, targetFrameTime) - 1
         IN IF late /\ droppedCount > 0 THEN droppedCount ELSE 0

Daro_EndFrame(ticks) ==
    /\ IF g_Initialized
       THEN /\ g_DroppedFrames' = FetchAdd32(g_DroppedFrames, DroppedCount(ticks, g_TargetFps))
            /\ g_FrameNumber' = g_FrameNumber + 1
       ELSE UNCHANGED <<g_DroppedFrames, g_FrameNumber>>
    /\ lastOp' = [op |-> "EndFrame", ran |-> g_Initialized, ticks |-> ticks,
                  was |-> g_DroppedFrames]
    /\ UNCHANGED <<g_Initialized, g_LastError, g_Renderer, g_FrameBuffer, g_Layers,
                   g_LayerCount, rendererVars, layerToMasks, lastUpdate, frameBegun, fbVars,
                   rendererMedia, videoVars, g_TargetFps>>
    /\ UNCHANGED lockVars

\* Daro_Present -> DaroRenderer::SendSpout; `sent`: SendTexture was called
Daro_Present ==
    /\ lastOp' = [op |-> "Present", sent |-> g_Initialized /\ g_Renderer /\ m_SpoutEnabled]
    /\ UNCHANGED <<engineKept, fbVars, mediaVars>>
    /\ UNCHANGED lockVars

\* Daro_EnableSpoutOutput (nameOk: a name of 1..255 characters),
\* Daro_DisableSpoutOutput
Daro_EnableSpoutOutput(nameOk) ==
    /\ m_SpoutEnabled' = IF g_Initialized /\ g_Renderer THEN m_SpoutEnabled \/ nameOk
                         ELSE m_SpoutEnabled
    /\ lastOp' = [op |-> "EnableSpoutOutput",
                  ret |-> g_Initialized /\ g_Renderer /\ (m_SpoutEnabled \/ nameOk)]
    /\ UNCHANGED <<engineKept, fbVars, m_Textures, m_NextTextureId, receiverVars,
                   m_SyncQuery, videoVars, timingVars>>
    /\ UNCHANGED lockVars

Daro_DisableSpoutOutput ==
    /\ m_SpoutEnabled' = IF g_Initialized /\ g_Renderer THEN FALSE ELSE m_SpoutEnabled
    /\ lastOp' = [op |-> "DisableSpoutOutput"]
    /\ UNCHANGED <<engineKept, fbVars, m_Textures, m_NextTextureId, receiverVars,
                   m_SyncQuery, videoVars, timingVars>>
    /\ UNCHANGED lockVars

\* Daro_LoadTexture; path: "" for a null, empty or refused path; readable:
\* WIC decodes the file and the device creates the texture
Daro_LoadTexture(path, readable) ==
    LET cached == {k \in DOMAIN m_Textures : m_Textures[k] = path}
        id == IF m_NextTextureId <= 0 THEN 1 ELSE m_NextTextureId
    IN /\ IF ~(g_Initialized /\ g_Renderer) \/ path = "" \/ (cached = {} /\ ~readable)
          THEN /\ lastOp' = [op |-> "LoadTexture", ret |-> -1]
               /\ UNCHANGED <<m_Textures, m_NextTextureId>>
          ELSE IF cached # {}
          THEN /\ lastOp' = [op |-> "LoadTexture",
                             ret |-> CHOOSE k \in cached : \A j \in cached : k <= j]
               /\ UNCHANGED <<m_Textures, m_NextTextureId>>
          ELSE /\ m_Textures' = [k \in DOMAIN m_Textures \cup {id} |->
                                   IF k = id THEN path ELSE m_Textures[k]]
               /\ m_NextTextureId' = IF m_NextTextureId <= 0 THEN 1
                                     ELSE IF m_NextTextureId = INT_MAX THEN INT_MIN
                                     ELSE m_NextTextureId + 1
               /\ lastOp' = [op |-> "LoadTexture", ret |-> id]
       /\ UNCHANGED <<engineKept, fbVars, m_SpoutEnabled, receiverVars, m_SyncQuery,
                      videoVars, timingVars>>
    /\ UNCHANGED lockVars

Daro_UnloadTexture(id) ==
    /\ m_Textures' = [k \in (DOMAIN m_Textures) \ (IF g_Initialized /\ g_Renderer
                                                     THEN {id} ELSE {}) |-> m_Textures[k]]
    /\ lastOp' = [op |-> "UnloadTexture", id |-> id]
    /\ UNCHANGED <<engineKept, fbVars, m_SpoutEnabled, m_NextTextureId, receiverVars,
                   m_SyncQuery, videoVars, timingVars>>
    /\ UNCHANGED lockVars

\* Daro_ConnectSpoutReceiver (nameOk: a name of 1..255 characters),
\* Daro_DisconnectSpoutReceiver
Daro_ConnectSpoutReceiver(nameOk) ==
    LET id == IF m_NextReceiverId <= 0 THEN 1 ELSE m_NextReceiverId
    IN /\ IF g_Initialized /\ g_Renderer /\ nameOk
          THEN /\ m_SpoutReceivers' = m_SpoutReceivers \cup {id}
               /\ m_NextReceiverId' = IF m_NextReceiverId <= 0 THEN 1
                                      ELSE IF m_NextReceiverId = INT_MAX THEN INT_MIN
                                      ELSE m_NextReceiverId + 1
               /\ lastOp' = [op |-> "ConnectSpoutReceiver", ret |-> id]
          ELSE /\ lastOp' = [op |-> "ConnectSpoutReceiver", ret |-> -1]
               /\ UNCHANGED receiverVars
       /\ UNCHANGED <<engineKept, fbVars, m_SpoutEnabled, m_Textures, m_NextTextureId,
                      m_SyncQuery, videoVars, timingVars>>
    /\ UNCHANGED lockVars

Daro_DisconnectSpoutReceiver(id) ==
    /\ m_SpoutReceivers' = m_SpoutReceivers \ (IF g_Initialized /\ g_Renderer THEN {id} ELSE {})
    /\ lastOp' = [op |-> "DisconnectSpoutReceiver", id |-> id]
    /\ UNCHANGED <<engineKept, fbVars, m_SpoutEnabled, m_Textures, m_NextTextureId,
                   m_NextReceiverId, m_SyncQuery, videoVars, timingVars>>
    /\ UNCHANGED lockVars

\* what Daro_IsDeviceLost returns
IsDeviceLost == g_Initialized /\ g_Renderer /\ m_DeviceLost

Daro_IsDeviceLost ==
    /\ lastOp' = [op |-> "IsDeviceLost", ret |-> IsDeviceLost]
    /\ UNCHANGED <<engineKept, fbVars, mediaVars>>
    /\ UNCHANGED lockVars

(***************************************************************************)
(* Initial states.                                                         *)
(***************************************************************************)
\* no thread is inside the engine
ThreadsIdle ==
    /\ g_Mutex = "free"
    /\ renderThread = [pc |-> "idle", n |-> 0, i |-> 0, layers |-> <<>>, instants |-> {}]
    /\ hostThread = [pc |-> "idle"]

\* the process before Daro_Initialize
InitEngine == FBInitialized /\ EngineStart /\ ThreadsIdle

\* the process after a successful Daro_Initialize
InitFB == FBInitialized /\ EngineInitialized /\ ThreadsIdle

(***************************************************************************)
(* One writer and one reader on an initialized frame buffer.               *)
(***************************************************************************)

WriterStep ==
    \/ W_Acquire
    \/ W_Wake_Notify
    \/ W_Wake_Spurious
    \/ W_Wake_Timeout
    \/ W_Reacquire
    \/ W_CopyRow
    \/ W_Stamp

NextFB ==
    \/ \E pDataNull \in BOOLEAN, s \in SrcStrides, f \in FrameNos : W_Call(pDataNull, s, f)
    \/ W_Acquire
    \/ W_Wake_Notify
    \/ W_Wake_Spurious
    \/ W_Wake_Timeout
    \/ W_Reacquire
    \/ W_CopyRow
    \/ W_Stamp
    \/ R_Lock
    \/ R_Unlock
    \/ R_Notify

SpecFB == InitFB /\ [][NextFB]_vars

\* the writer thread runs whenever it can; the bounded wait always eventually
\* expires; the reader finishes an Unlock it has started
FairSpecFB ==
    /\ InitFB
    /\ [][NextFB]_vars
    /\ WF_vars(W_Acquire)
    /\ WF_vars(W_Reacquire)
    /\ WF_vars(W_CopyRow)
    /\ WF_vars(W_Stamp)
    /\ SF_vars(W_Wake_Timeout)
    /\ WF_vars(R_Notify)

(***************************************************************************)
(* The layer table under arbitrary calls of the host.                      *)
(***************************************************************************)

\* arguments the host may pass: every int is a legal argument
CountArgs == {INT_MIN, -1, 0, 1, DARO_MAX_LAYERS, DARO_MAX_LAYERS + 1, INT_MAX}
IndexArgs == {INT_MIN, -1, 0, DARO_MAX_LAYERS - 1, DARO_MAX_LAYERS, INT_MAX}

PayloadA == MkLayer(5, 1, DARO_TYPE_RECTANGLE, 2, 4, FALSE, 0, 0, <<>>)
PayloadB == MkLayer(9, 1, DARO_TYPE_IMAGE, 3, 2, FALSE, 0, 0, <<>>)
TablePayloads == {PayloadA, PayloadB}

NextLayers ==
    \/ \E result \in {DARO_OK, DARO_ERROR_CREATE_DEVICE} : Daro_Initialize(result, 50)
    \/ Daro_Shutdown
    \/ \E count \in CountArgs : Daro_SetLayerCount(count)
    \/ \E index \in IndexArgs, isNull \in BOOLEAN, layer \in TablePayloads :
          Daro_UpdateLayer(index, isNull, layer)
    \/ \E index \in IndexArgs, isNull \in BOOLEAN : Daro_GetLayer(index, isNull)
    \/ Daro_ClearLayers
    \/ Daro_Render({"ok"}, FALSE, FBStride)

SpecLayers == InitEngine /\ [][NextLayers]_vars

(***************************************************************************)
(* Frames rendered from tables of masks and targets.                       *)
(***************************************************************************)
\* targets with id 5: a rectangle over the whole canvas, a text; a video
\* whose id is negative
RectA == MkLayer(5, 1, DARO_TYPE_RECTANGLE, 2, 4, FALSE, 0, 0, <<>>)
TextT == MkLayer(5, 1, DARO_TYPE_TEXT, 2, 4, TRUE, 0, 0, <<>>)
VideoN == MkLayer(-1, 1, DARO_TYPE_VIDEO, 1, 2, FALSE, 0, 0, <<>>)
\* masks: Inner over the middle, one target counted (a second id behind the
\* count); a mask that counts no target; inactive Outer over the left with a
\* count above the array size, an id no layer has and a negative id
MaskIn == MkLayer(20, 1, DARO_TYPE_MASK, 2, 2, FALSE, 0, 1, <<5, -1>>)
MaskNone == MkLayer(22, 1, DARO_TYPE_MASK, 2, 2, FALSE, 0, 0, <<5>>)
MaskOut == MkLayer(21, 0, DARO_TYPE_MASK, 1, 2, FALSE, 1, 70, <<5, 999, -1>>)

\* the UpdateLayer calls of the host: index and record
RenderUpdates ==
    {<<0, MaskIn>>, <<0, MaskNone>>,
     <<1, RectA>>, <<1, TextT>>, <<1, VideoN>>,
     <<2, MaskOut>>}

RenderCounts == 0 .. 3

\* what Direct2D may answer to a draw
DrawOutcomes == {"ok", "createFail"}

NextRender ==
    \/ \E count \in RenderCounts : Daro_SetLayerCount(count)
    \/ \E u \in RenderUpdates : Daro_UpdateLayer(u[1], FALSE, u[2])
    \/ \E show \in BOOLEAN : Daro_SetShowBounds(show)
    \/ Daro_BeginFrame(FALSE, {0}, NoFailure)
    \/ Daro_Render(DrawOutcomes, FALSE, FBStride)

SpecRender == InitFB /\ [][NextRender]_vars

(***************************************************************************)
(* C1: if the buffer is locked when Write is called and no Unlock occurs   *)
(* before the wait expires, Write returns with every pixel byte and the    *)
(* header frameNumber as they were at the call.                            *)
(***************************************************************************)
C1_DropLeavesBufferUnmodified ==
    (wpc = "idle" /\ wGhost.result # "none" /\ wGhost.lockedAtCall /\ ~wGhost.unlockSeen)
        => /\ m_pPixels = wGhost.pixels
           /\ hdr.frameNumber = wGhost.frameNumber
           /\ wGhost.result \in {"dropped", "rejected"}

\* a Write called on a locked buffer timed out and returned, the buffer
\* holding an earlier frame
C1_Witness ==
    /\ wpc = "idle"
    /\ wGhost.result = "dropped"
    /\ wGhost.lockedAtCall
    /\ ~wGhost.unlockSeen
    /\ w.frameNumber # hdr.frameNumber
    /\ hdr.frameNumber > 0

(***************************************************************************)
(* C2: every call of Write returns, whatever the reader does (the reader   *)
(* may hold the lock forever), given that the bounded wait expires.        *)
(***************************************************************************)
C2_WriteTerminates == (wpc # "idle") ~> (wpc = "idle")

\* the writer is waiting on a buffer the reader holds locked
C2_Witness == wpc = "waiting" /\ rpc = "locked" /\ m_IsLocked

(***************************************************************************)
(* C3: between the return of Lock and the next Unlock call no pixel byte   *)
(* and no header frameNumber is written, and Lock never returns while a    *)
(* copy is in progress.                                                    *)
(***************************************************************************)
C3_NoWriteWhileReaderHolds ==
    [][rpc = "locked"
          => (m_pPixels' = m_pPixels /\ hdr'.frameNumber = hdr.frameNumber)]_vars

C3_LockWaitsForCopy == rpc = "locked" => wpc # "copy"

C3_Exclusion == []C3_LockWaitsForCopy /\ C3_NoWriteWhileReaderHolds

\* the reader holds the buffer after a complete frame has been published,
\* and the writer is blocked behind it
C3_Witness ==
    /\ rpc = "locked"
    /\ hdr.frameNumber > 0
    /\ wpc \in {"waiting", "reacquire"}

(***************************************************************************)
(* C4: for every N in [0,64] and every i < N, after Daro_SetLayerCount(N)  *)
(* Daro_GetLayer(i) returns exactly the payload of the last                *)
(* Daro_UpdateLayer(i, ..) since the last clear / initialize, all-zero if  *)
(* there was none, whatever calls for the count and for other indices      *)
(* came in between.                                                        *)
(***************************************************************************)
C4_Expected(i) == IF i \in DOMAIN lastUpdate THEN lastUpdate[i] ELSE ZeroLayer

C4_GetReturnsLastUpdate ==
    (/\ lastOp.op = "GetLayer"
     /\ ~lastOp.isNull
     /\ lastOp.index \in 0 .. (g_LayerCount - 1))
    => lastOp.out = C4_Expected(lastOp.index)

\* the last record of a full table read back after the count was set to 64,
\* another index having been updated as well
C4_Witness ==
    /\ lastOp.op = "GetLayer"
    /\ ~lastOp.isNull
    /\ lastOp.index = DARO_MAX_LAYERS - 1
    /\ g_LayerCount = DARO_MAX_LAYERS
    /\ lastOp.out = PayloadB
    /\ 0 \in DOMAIN lastUpdate

(***************************************************************************)
(* C5: after any sequence of Daro_Initialize, Daro_SetLayerCount (any      *)
(* int), Daro_UpdateLayer and Daro_ClearLayers the layer count is in       *)
(* [0,64], and the snapshot Daro_Render copies holds at most 64 records.   *)
(***************************************************************************)
C5_CountInRange ==
    /\ g_LayerCount \in 0 .. DARO_MAX_LAYERS
    /\ (lastOp.op = "Render" /\ lastOp.ran)
          => /\ lastOp.n <= DARO_MAX_LAYERS
             /\ Cardinality(DOMAIN lastOp.layers) <= DARO_MAX_LAYERS

\* SetLayerCount was given the largest int
C5_Witness ==
    /\ lastOp.op = "SetLayerCount"
    /\ lastOp.count = INT_MAX
    /\ g_LayerCount = DARO_MAX_LAYERS

(***************************************************************************)
(* C6: Daro_UpdateLayer and Daro_GetLayer called with an index < 0 or      *)
(* >= 64, or with a null record pointer, return without error and leave    *)
(* every layer record and the layer count unchanged (and GetLayer writes   *)
(* nothing to the caller's record).                                        *)
(***************************************************************************)
C6_Rejected(op) ==
    /\ op.op \in {"UpdateLayer", "GetLayer"}
    /\ (op.index < 0 \/ op.index >= DARO_MAX_LAYERS \/ op.isNull)

C6_RejectedCallChangesNothing ==
    [][C6_Rejected(lastOp') =>
          /\ g_Layers' = g_Layers
          /\ g_LayerCount' = g_LayerCount
          /\ g_LastError' = g_LastError
          /\ g_Initialized' = g_Initialized]_vars

C6_RejectedGetWritesNothing ==
    (lastOp.op = "GetLayer" /\ C6_Rejected(lastOp)) => lastOp.out = "untouched"

C6_BadArgumentsIgnored == []C6_RejectedGetWritesNothing /\ C6_RejectedCallChangesNothing

\* an update with index 64 arrived at a table that holds records
C6_Witness ==
    /\ lastOp.op = "UpdateLayer"
    /\ lastOp.index = DARO_MAX_LAYERS
    /\ ~lastOp.isNull
    /\ g_Layers[DARO_MAX_LAYERS - 1] = PayloadA
    /\ g_LayerCount = 1

(***************************************************************************)
(* What the frame rendered last did, read from lastOp.                     *)
(***************************************************************************)
RenderRan == lastOp.op = "Render" /\ lastOp.ran

FrameIdx == 0 .. (lastOp.n - 1)
FrameEvents == {lastOp.events[k] : k \in 1 .. Len(lastOp.events)}

\* layer i of the snapshot is one the loop dispatches as content
IsTarget(i) ==
    /\ lastOp.layers[i].active # 0
    /\ lastOp.layers[i].layerType \notin {DARO_TYPE_MASK, DARO_TYPE_GROUP}

\* the Mask layers of the snapshot that list the id of layer i among their
\* first min(maskedLayerCount, 64) target ids
MasksListing(i) ==
    {m \in FrameIdx :
        /\ lastOp.layers[m].layerType = DARO_TYPE_MASK
        /\ lastOp.layers[m].maskedLayerCount > 0
        /\ \E j \in 0 .. (Min(lastOp.layers[m].maskedLayerCount, DARO_MAX_LAYERS) - 1) :
              MaskedIdAt(lastOp.layers[m], j) = lastOp.layers[i].id}

WentMasked(i) == \E e \in FrameEvents : e.idx = i /\ e.what = "masked"
WentNormal(i) == \E e \in FrameEvents : e.idx = i /\ e.what = "normal"

(***************************************************************************)
(* C7: in every Daro_Render an active layer that is neither Mask nor Group *)
(* goes through the masked path if and only if a Mask layer of the current *)
(* snapshot (index < count, maskedLayerCount > 0) lists its id among its   *)
(* first min(maskedLayerCount, 64) target ids; negative target ids and ids *)
(* of no layer have no effect; masks of earlier frames play no part.       *)
(***************************************************************************)
C7_MaskedIffListed ==
    RenderRan =>
        \A i \in FrameIdx :
            IsTarget(i) =>
                IF lastOp.layers[i].id >= 0 /\ MasksListing(i) # {}
                THEN WentMasked(i) /\ ~WentNormal(i)
                ELSE WentNormal(i) /\ ~WentMasked(i)

\* a frame of two records renders its target unmasked while the table holds,
\* past the count, a mask that lists the target's id
C7_Witness ==
    /\ RenderRan
    /\ lastOp.n = 2
    /\ IsTarget(1)
    /\ lastOp.layers[1].id = 5
    /\ WentNormal(1)
    /\ g_Layers[2] = MaskOut

(***************************************************************************)
(* C8: when several Mask layers list the same target id, the target is     *)
(* masked by exactly one of them, the one with the lowest index in the     *)
(* table; the stencil is written from that mask only.                      *)
(***************************************************************************)
C8_Lowest(i) == CHOOSE m \in MasksListing(i) : \A m2 \in MasksListing(i) : m <= m2

C8_LowestMaskApplies ==
    RenderRan =>
        \A k \in 1 .. Len(lastOp.events) :
            LET e == lastOp.events[k]
            IN /\ e.what = "masked" => e.mask = C8_Lowest(e.idx)
               /\ e.what = "stencilWrite" =>
                     /\ k < Len(lastOp.events)
                     /\ lastOp.events[k + 1].what = "masked"
                     /\ e.idx = C8_Lowest(lastOp.events[k + 1].idx)
               /\ (e.what = "masked" /\ e.via = "quad") =>
                     /\ k > 1
                     /\ lastOp.events[k - 1].what = "stencilWrite"

\* a target listed by the masks at index 0 and at index 2 is masked by 0
C8_Witness ==
    /\ RenderRan
    /\ \E i \in FrameIdx :
          /\ IsTarget(i)
          /\ {0, 2} \subseteq MasksListing(i)
          /\ \E e \in FrameEvents : e.idx = i /\ e.what = "masked" /\ e.mask = 0

(***************************************************************************)
(* C9, as stated: a Mask layer is never rendered as visible content; no    *)
(* colour draw is issued for the Mask layer itself, the only thing drawn   *)
(* for it is the bounding-box overlay, and only while show-bounds is on.   *)
(* (The stencil write of a mask writes no colour and is left aside.)       *)
(***************************************************************************)
C9_OwnEvents(i) ==
    {k \in 1 .. Len(lastOp.events) :
        lastOp.events[k].idx = i /\ lastOp.events[k].what # "stencilWrite"}

C9_Original ==
    RenderRan =>
        \A i \in FrameIdx :
            lastOp.layers[i].layerType = DARO_TYPE_MASK =>
                \A k \in C9_OwnEvents(i) :
                    lastOp.events[k].what = "bounds" /\ lastOp.show

(***************************************************************************)
(* C9, amended: an inactive Mask layer draws nothing.  For every active    *)
(* Mask layer of the snapshot Daro_Render issues exactly one colour draw   *)
(* of the mask's rectangle (the preview), then the bounding-box overlay    *)
(* exactly once if show-bounds is on and never otherwise; a Mask layer is  *)
(* never dispatched as content, neither normally nor through the masked    *)
(* path.                                                                   *)
(***************************************************************************)
C9_Count(i, what) == Cardinality({k \in C9_OwnEvents(i) : lastOp.events[k].what = what})

C9_MaskDrawnAsPreview ==
    RenderRan =>
        \A i \in FrameIdx :
            lastOp.layers[i].layerType = DARO_TYPE_MASK =>
                IF lastOp.layers[i].active = 0
                THEN C9_OwnEvents(i) = {}
                ELSE /\ C9_Count(i, "maskPreview") = 1
                     /\ C9_Count(i, "bounds") = (IF lastOp.show THEN 1 ELSE 0)
                     /\ Cardinality(C9_OwnEvents(i)) =
                           C9_Count(i, "maskPreview") + C9_Count(i, "bounds")
                     /\ \A k \in C9_OwnEvents(i) :
                           lastOp.events[k].what = "maskPreview" => lastOp.events[k].via = "quad"

\* show-bounds off, a begun frame: the active mask at index 0 put the pixels
\* of its rectangle into the colour buffer, the inactive mask at index 2 drew
\* nothing
C9_Witness ==
    /\ RenderRan
    /\ ~lastOp.show
    /\ lastOp.begun
    /\ lastOp.n = 3
    /\ lastOp.layers[0] = MaskIn
    /\ lastOp.layers[2] = MaskOut
    /\ lastOp.events[1].what = "maskPreview"
    /\ lastOp.events[1].px = Region(MaskIn)
    /\ lastOp.events[1].px # {}
    /\ C9_OwnEvents(2) = {}

(***************************************************************************)
(* C10, as stated, for frames set up by Daro_BeginFrame: the pixels of a   *)
(* masked rectangle / image / video target that reach the colour buffer    *)
(* are exactly those inside the mask's bounding rectangle for Inner (0)    *)
(* and exactly those outside it for Outer (1); unmasked layers of the      *)
(* frame keep all their pixels.                                            *)
(***************************************************************************)
C10_Expected(i, m) ==
    IF lastOp.layers[m].maskMode = 0
    THEN Region(lastOp.layers[i]) \cap Region(lastOp.layers[m])
    ELSE Region(lastOp.layers[i]) \ Region(lastOp.layers[m])

C10_MaskedPixels ==
    (RenderRan /\ lastOp.begun) =>
        \A e \in FrameEvents :
            /\ (e.what = "masked" /\ e.via = "quad") => e.px = C10_Expected(e.idx, e.mask)
            /\ (e.what = "normal" /\ e.via = "quad") => e.px = Region(lastOp.layers[e.idx])

(***************************************************************************)
(* The engine across a device loss: the frame cycle, layer, texture, Spout *)
(* and video calls of one serialized caller (the staging map fails, so no  *)
(* Write is entered).                                                      *)
(***************************************************************************)
\* texture loads per renderer, video loads and frames ended in a run of this
\* specification
MaxDeviceLoads == 1
MaxDeviceFrames == 1

\* a file Media Foundation plays: 2 frames at 25 per second
ShortFileMF ==
    [path |-> "ok", gop |-> 1,
     mf |-> [ok |-> TRUE, probed |-> TRUE, width |-> 2, rate |-> 25, frames |-> 2,
             tick |-> 400000],
     ff |-> [ok |-> FALSE]]

DeviceCall ==
    \/ \E result \in {DARO_OK, DARO_ERROR_CREATE_DEVICE} : Daro_Initialize(result, 50)
    \/ Daro_Shutdown
    \/ \E removed \in BOOLEAN : Daro_BeginFrame(removed, {0}, NoFailure)
    \/ Daro_Render({"ok"}, FALSE, FBStride)
    \/ g_FrameNumber < MaxDeviceFrames /\ Daro_EndFrame(200000)
    \/ Daro_Present
    \/ Daro_EnableSpoutOutput(TRUE)
    \/ Daro_SetLayerCount(1)
    \/ Daro_UpdateLayer(0, FALSE, RectA)
    \/ m_NextTextureId <= MaxDeviceLoads /\ Daro_LoadTexture("a", TRUE)
    \/ Daro_UnloadTexture(1)
    \/ m_NextVideoId <= MaxDeviceLoads /\ Daro_LoadVideo(ShortFileMF, TRUE, "ok")
    \/ Daro_VideoControl("PauseVideo", 1, FALSE)
    \/ Daro_IsDeviceLost

SpecDevice == InitEngine /\ [][DeviceCall]_vars

C12_RenderingDisabled ==
    IsDeviceLost =>
        /\ (lastOp.op = "Render" /\ lastOp.ran) =>
              /\ ~lastOp.clear
              /\ lastOp.events = <<>>
              /\ ~lastOp.copy
              /\ ~lastOp.write
        /\ lastOp.op = "Present" => ~lastOp.sent

(***************************************************************************)
(* Playback of one video at a time on an initialized engine: the host      *)
(* loads a file, drives it with the video calls, and Daro_BeginFrame       *)
(* updates it every 120 ms.                                                *)
(***************************************************************************)
\* video loads in a run; the performance-counter ticks a video is updated
\* for
MaxVideoLoads == 1
MaxVideoTicks == 3600000

\* four frames at 25 per second that both backends accept
FileMF25 ==
    [path |-> "ok", gop |-> 1,
     mf |-> [ok |-> TRUE, probed |-> TRUE, width |-> 2, rate |-> 25, frames |-> 4,
             tick |-> 400000],
     ff |-> [ok |-> TRUE, width |-> 8, rate |-> 50, frames |-> 6]]

\* three frames at 30 per second, sample times a multiple of 333333 x 100 ns,
\* for Media Foundation only
FileMF30 ==
    [path |-> "ok", gop |-> 1,
     mf |-> [ok |-> TRUE, probed |-> TRUE, width |-> 2, rate |-> 30, frames |-> 3,
             tick |-> 333333],
     ff |-> [ok |-> FALSE]]

\* a file Media Foundation probes and then fails to open, and FFmpeg plays:
\* three frames at 25 per second, every second one a key frame
FileFF ==
    [path |-> "ok", gop |-> 2,
     mf |-> [ok |-> FALSE, probed |-> TRUE, rate |-> 30, frames |-> 9],
     ff |-> [ok |-> TRUE, width |-> 4, rate |-> 25, frames |-> 3]]

\* a file neither backend opens
FileNone ==
    [path |-> "ok", gop |-> 1,
     mf |-> [ok |-> FALSE, probed |-> FALSE],
     ff |-> [ok |-> FALSE]]

VideoFiles == {FileMF25, FileMF30, FileFF, FileNone}
VideoTicks == {1200000}
SeekArgs == {-1, 1, 5}

VideoCall ==
    \/ \E file \in VideoFiles :
          /\ m_NextVideoId <= MaxVideoLoads
          /\ m_Players = EmptyIndex
          /\ Daro_LoadVideo(file, TRUE, "ok")
    \/ \E t \in VideoTicks :
          /\ \A id \in DOMAIN m_Players :
                m_Players[id].m_LastFrameTime + m_Players[id].counterAhead + t <= MaxVideoTicks
          /\ Daro_BeginFrame(FALSE, {t}, MayFail)
    \/ \E call \in {"PlayVideo", "PauseVideo"} : Daro_VideoControl(call, 1, FALSE)
    \/ \E loop \in BOOLEAN : Daro_VideoControl("SetVideoLoop", 1, loop)
    \/ \E frame \in SeekArgs : Daro_SeekVideo(1, frame, MayFail)
    \/ Daro_StopVideo(1, MayFail)

SpecVideo == InitFB /\ [][VideoCall]_vars

\* the players Daro_BeginFrame has just updated
JustUpdated == IF lastOp.op = "BeginFrame" THEN DOMAIN lastOp.upd ELSE {}

(***************************************************************************)
(* C13, as stated, for updates in which every decode call returned a       *)
(* frame: an UpdateFrame that finds a backlog a below frameDuration and    *)
(* does not reach end-of-stream decodes floor((a + e) / frameDuration)     *)
(* frames and leaves (a + e) mod frameDuration in the clock, a, e and      *)
(* frameDuration taken exactly as stored; with no backlog that is          *)
(* floor(ticks * frameRate / frequency) frames, 3 for 120 ms at 25 frames  *)
(* per second.                                                             *)
(***************************************************************************)
RECURSIVE C13_Floor(_, _)
C13_Floor(x, d) == IF BigGeq(x, d) THEN 1 + C13_Floor(BigSub(x, d), d) ELSE 0

RECURSIVE C13_Mod(_, _)
C13_Mod(x, d) == IF BigGeq(x, d) THEN C13_Mod(BigSub(x, d), d) ELSE x

C13_ExactFrames ==
    \A id \in JustUpdated :
        LET u == lastOp.upd[id]
            p == m_Players[id]
            total == BigAdd(u.was, DoubleDiv(u.ticks, PerfFrequency))
        IN (/\ u.ran
            /\ ~u.eos
            /\ u.tries = u.frames
            /\ ~BigGeq(u.was, p.m_FrameDuration))
           => /\ u.frames = C13_Floor(total, p.m_FrameDuration)
              /\ p.m_AccumulatedTime = C13_Mod(total, p.m_FrameDuration)
              /\ ~BigGeq(p.m_AccumulatedTime, p.m_FrameDuration)
              /\ u.was = DoubleZero
                    => u.frames = (u.ticks * p.m_FrameRate) \div PerfFrequency

\* the stream of a player is at its start: the next read returns the first
\* or the second frame
C14_AtStart(p) == p.stream.pos <= 1 /\ ~p.stream.eof

C15_HeldFrame(old, new, frames) ==
    IF frames = 0 THEN old.m_CurrentFrame
    ELSE IF new.m_UsingFFmpeg THEN old.m_CurrentFrame + frames
    ELSE FrameOfTimestamp(new.tex * new.stream.tick, new.m_FrameRate)

C15_HoldsLastFrame ==
    /\ [][\A id \in JustUpdated' :
             (lastOp'.upd[id].eos /\ ~m_Players[id].m_Loop)
                => /\ ~m_Players'[id].m_Playing
                   /\ m_Players'[id].m_CurrentFrame =
                         C15_HeldFrame(m_Players[id], m_Players'[id], lastOp'.upd[id].frames)
                   /\ (/\ lastOp'.upd[id].frames > 0
                       /\ lastOp'.upd[id].frames = lastOp'.upd[id].tries - 1)
                         => m_Players'[id].tex = m_Players'[id].stream.pos - 1
                   /\ lastOp'.upd[id].frames = 0 => m_Players'[id].tex = m_Players[id].tex]_vars
    /\ [][\A id \in JustUpdated' :
             ~m_Players[id].m_Playing =>
                 [m_Players'[id] EXCEPT !.counterAhead = m_Players[id].counterAhead]
                     = m_Players[id]]_vars
    /\ [][\A id \in DOMAIN m_Players \cap DOMAIN m_Players' :
             (/\ ~m_Players[id].m_Playing
              /\ \/ m_Players'[id].m_CurrentFrame # m_Players[id].m_CurrentFrame
                 \/ m_Players'[id].tex # m_Players[id].tex)
                => lastOp'.op \in {"SeekVideo", "StopVideo"}]_vars

\* a video played to its end with loop off, and a further Daro_BeginFrame
\* found it stopped on its last frame
C15_Witness ==
    \E id \in JustUpdated :
        /\ ~lastOp.upd[id].ran
        /\ ~m_Players[id].m_Playing
        /\ ~m_Players[id].m_Loop
        /\ m_Players[id].stream.pos >= m_Players[id].stream.frames
        /\ m_Players[id].m_LastFrameTime > 0
        /\ m_Players[id].tex = m_Players[id].m_TotalFrames - 1
        /\ m_Players[id].m_CurrentFrame = m_Players[id].m_TotalFrames - 1

(***************************************************************************)
(* C16: a loaded video has exactly one backend object, the one             *)
(* m_UsingFFmpeg records, and it is the first that accepted the file:      *)
(* Media Foundation if it opened the file, else FFmpeg, which is asked     *)
(* only after Media Foundation failed.  Width, frame rate and frame count  *)
(* are those the recorded backend probed.  The record does not change      *)
(* while the video stays loaded, and the updates, Seek and Stop have       *)
(* called the recorded backend only.                                       *)
(***************************************************************************)
C16_Backend(p) == IF p.m_UsingFFmpeg THEN "FFmpeg" ELSE "MF"

C16_Probe(p) == IF p.m_UsingFFmpeg THEN p.m_FilePath.ff ELSE p.m_FilePath.mf

C16_OneBackend ==
    /\ [](\A id \in DOMAIN m_Players :
             LET p == m_Players[id]
             IN /\ p.m_Loaded
                /\ p.m_FFmpegDecoder = p.m_UsingFFmpeg
                /\ p.m_Reader = ~p.m_UsingFFmpeg
                /\ p.m_UsingFFmpeg = ~p.m_FilePath.mf.ok
                /\ C16_Probe(p).ok
                /\ p.m_Width = C16_Probe(p).width
                /\ p.m_FrameRate = C16_Probe(p).rate
                /\ p.m_TotalFrames = C16_Probe(p).frames
                /\ p.touched \subseteq {C16_Backend(p)})
    /\ [](lastOp.op = "LoadVideo" =>
             /\ lastOp.tried \in {<<>>, <<"MF">>, <<"MF", "FFmpeg">>}
             /\ lastOp.tried = <<"MF", "FFmpeg">> => ~lastOp.file.mf.ok
             /\ lastOp.ret > 0 =>
                   lastOp.tried = (IF lastOp.file.mf.ok THEN <<"MF">> ELSE <<"MF", "FFmpeg">>))
    /\ [][\A id \in DOMAIN m_Players \cap DOMAIN m_Players' :
             m_Players'[id].m_UsingFFmpeg = m_Players[id].m_UsingFFmpeg]_vars

\* a file Media Foundation probed at 30 frames per second and failed to open
\* plays through FFmpeg at the 25 FFmpeg probed, and has just been sought
\* after an update
C16_Witness ==
    /\ lastOp.op = "SeekVideo"
    /\ lastOp.found
    /\ lastOp.seek
    /\ m_Players[lastOp.id].m_FilePath = FileFF
    /\ m_Players[lastOp.id].m_UsingFFmpeg
    /\ m_Players[lastOp.id].m_FrameRate = 25
    /\ m_Players[lastOp.id].m_Width = 4
    /\ m_Players[lastOp.id].m_LastFrameTime > 0
    /\ m_Players[lastOp.id].touched = {"FFmpeg"}

(***************************************************************************)
(* The registry of the VideoManager: loads of files the backends accept or *)
(* reject, up to and beyond the limit, unloads, and the per-video calls    *)
(* with ids that name no video.                                            *)
(***************************************************************************)
\* video loads that succeed in a run
MaxRegistryLoads == 34

\* a path LoadVideo refuses before it asks a backend
FileBadPath == [path |-> "bad"]

RegistryFiles == {ShortFileMF, FileNone, FileBadPath, NoFile}
\* ids that name no video; the ids the host unloads
NoVideoIds == {-1, 0}
UnloadIds == {-1, 0, 1, MAX_LOADED_VIDEOS}

RegistryCall ==
    \/ Daro_Initialize(DARO_OK, 50)
    \/ Daro_Shutdown
    \/ \E file \in RegistryFiles :
          /\ m_NextVideoId <= MaxRegistryLoads
          /\ Daro_LoadVideo(file, TRUE, "ok")
    \/ \E id \in UnloadIds : Daro_UnloadVideo(id)
    \/ \E id \in NoVideoIds \cup {1}, call \in {"PlayVideo", "PauseVideo"} :
          Daro_VideoControl(call, id, FALSE)
    \/ \E id \in NoVideoIds : Daro_VideoControl("SetVideoLoop", id, FALSE)
    \/ \E id \in NoVideoIds : Daro_StopVideo(id, NoFailure)
    \/ \E id \in NoVideoIds : Daro_SeekVideo(id, 1, NoFailure)
    \/ \E id \in NoVideoIds \cup {1} : Daro_VideoQuery(id)

SpecRegistry == InitEngine /\ [][RegistryCall]_vars

(***************************************************************************)
(* C17: a load of a file both backends reject returns a non-positive id,   *)
(* having asked Media Foundation and then FFmpeg or (engine not            *)
(* initialized, registry full) neither; a load that returns a              *)
(* non-positive id leaves the registry, the next-id counter and the engine *)
(* as they were; and a per-video call with a non-positive id changes       *)
(* nothing and returns the default: not playing, frame 0, 0 frames.        *)
(***************************************************************************)
\* everything but lastOp
C17_Rest == <<fbVars, engineKept, mediaVars>>

C17_PerVideoCalls ==
    {"UnloadVideo", "PlayVideo", "PauseVideo", "SetVideoLoop", "StopVideo", "SeekVideo",
     "VideoQuery"}

C17_RejectedLoad ==
    /\ []((/\ lastOp.op = "LoadVideo"
           /\ lastOp.file.path = "ok"
           /\ ~lastOp.file.mf.ok
           /\ ~lastOp.file.ff.ok)
            => /\ lastOp.ret <= 0
               /\ lastOp.tried \in {<<>>, <<"MF", "FFmpeg">>})
    /\ [][(lastOp'.op = "LoadVideo" /\ lastOp'.ret <= 0)
             => UNCHANGED <<m_Players, m_NextVideoId, engineKept, fbVars, rendererMedia,
                            timingVars>>]_vars
    /\ [][(lastOp'.op \in C17_PerVideoCalls /\ lastOp'.id <= 0)
             => /\ UNCHANGED C17_Rest
                /\ lastOp'.op = "SeekVideo" => ~lastOp'.found
                /\ lastOp'.op = "VideoQuery"
                      => (~lastOp'.playing /\ lastOp'.frame = 0 /\ lastOp'.total = 0)]_vars

\* with a video registered and playing, a load of a file neither backend
\* opens has returned 0 after asking both
C17_Witness ==
    /\ lastOp = [op |-> "LoadVideo", ret |-> 0, file |-> FileNone,
                 tried |-> <<"MF", "FFmpeg">>]
    /\ 1 \in DOMAIN m_Players
    /\ m_Players[1].m_Playing
    /\ m_NextVideoId = 2

(***************************************************************************)
(* C18: the registry never holds more than 32 videos.  A load made while   *)
(* it holds 32 returns 0 and leaves every registered video as it was.  A   *)
(* load of a file a backend accepts, made while it holds fewer than 32     *)
(* (as after an unload), returns a new positive id and registers it,       *)
(* leaving the others as they were.                                        *)
(***************************************************************************)
\* the number of videos registered
C18_Loaded == Cardinality(DOMAIN m_Players)

C18_RegistryCap ==
    /\ [](C18_Loaded <= MAX_LOADED_VIDEOS)
    /\ [][(C18_Loaded = MAX_LOADED_VIDEOS /\ lastOp'.op = "LoadVideo")
             => (lastOp'.ret = 0 /\ m_Players' = m_Players)]_vars
    /\ [][(/\ lastOp'.op = "LoadVideo"
           /\ g_Initialized /\ g_Renderer
           /\ C18_Loaded < MAX_LOADED_VIDEOS
           /\ lastOp'.file.path = "ok"
           /\ lastOp'.file.mf.ok \/ lastOp'.file.ff.ok)
             => /\ lastOp'.ret > 0
                /\ lastOp'.ret \notin DOMAIN m_Players
                /\ DOMAIN m_Players' = DOMAIN m_Players \cup {lastOp'.ret}
                /\ m_Players'[lastOp'.ret].m_Loaded
                /\ \A id \in DOMAIN m_Players : m_Players'[id] = m_Players[id]]_vars

\* 32 videos were loaded, the first of them paused; a further load was
\* refused, the last video was unloaded, and the next load got id 33
C18_Witness ==
    /\ lastOp.op = "LoadVideo"
    /\ lastOp.ret = MAX_LOADED_VIDEOS + 1
    /\ C18_Loaded = MAX_LOADED_VIDEOS
    /\ MAX_LOADED_VIDEOS \notin DOMAIN m_Players
    /\ ~m_Players[1].m_Playing

(***************************************************************************)
(* C19, as stated: a Daro_SeekVideo(id, f) on a loaded video whose backend *)
(* seek succeeds leaves currentFrame at f clamped into [0, totalFrames-1]  *)
(* (0 when totalFrames <= 0) and the end-of-stream flag clear, makes one   *)
(* decode call, whose frame, the one the seek landed on, is in the         *)
(* texture, and leaves the playing flag as it was.  On an id with no       *)
(* loaded video it changes nothing.                                        *)
(***************************************************************************)
C19_SeekSetsFrame ==
    [][lastOp'.op = "SeekVideo" =>
          IF lastOp'.found
          THEN LET old == m_Players[lastOp'.id]
                   new == m_Players'[lastOp'.id]
                   frame == ClampFrame(lastOp'.frame, old.m_TotalFrames)
               IN lastOp'.seek =>
                     /\ new.m_CurrentFrame = frame
                     /\ ~new.m_EndOfStream
                     /\ lastOp'.calls = 1
                     /\ lastOp'.got = 1 => new.tex = Landing(old, frame)
                     /\ new.m_Playing = old.m_Playing
          ELSE m_Players' = m_Players]_vars

(***************************************************************************)
(* Frame timing: a host that initializes the engine at 40 or 50 frames per *)
(* second and ends frames 0.02 s to 0.58 s after the previous one.         *)
(***************************************************************************)
MaxTimingFrames == 3

TimingCall ==
    \/ \E targetFps \in {40, 50} : Daro_Initialize(DARO_OK, targetFps)
    \/ Daro_Shutdown
    \/ \E ticks \in {200000, 300000, 500000, 750000, 5800000} :
          /\ g_FrameNumber < MaxTimingFrames
          /\ Daro_EndFrame(ticks)

SpecTiming == InitEngine /\ [][TimingCall]_vars

\* floor(elapsed / targetInterval) - 1 in exact arithmetic, when elapsed is
\* more than 1.5 target intervals and the amount is positive, else 0
C20_Exact(ticks, fps) ==
    LET late == 2 * ticks * fps > 3 * PerfFrequency
        droppedCount == (ticks * fps) \div PerfFrequency - 1
    IN IF late /\ droppedCount > 0 THEN droppedCount ELSE 0

(***************************************************************************)
(* C20: dropped-frame accounting.  A Daro_EndFrame of the initialized      *)
(* engine adds floor(elapsed / targetInterval) - 1, taken in exact         *)
(* arithmetic, to the dropped-frame counter when elapsed is more than 1.5  *)
(* target intervals and that amount is positive, and adds nothing          *)
(* otherwise (2.5 intervals add exactly 1); no call makes the counter      *)
(* smaller.                                                                *)
(***************************************************************************)
C20_DroppedFrames ==
    [][/\ g_DroppedFrames' >= g_DroppedFrames
       /\ (lastOp'.op = "EndFrame" /\ lastOp'.ran)
             => g_DroppedFrames' =
                  g_DroppedFrames + C20_Exact(lastOp'.ticks, g_TargetFps)]_vars

(***************************************************************************)
(* Lifecycle: a host that initializes the engine while any one step, or    *)
(* none, fails, shuts it down, switches the Spout output and ends frames.  *)
(***************************************************************************)
MaxLifecycleFrames == 1
MaxLifecycleLoads == 1

LifecycleCall ==
    \/ \E i \in 1 .. Len(InitializeSteps), targetFps \in {40, 50} :
          Daro_InitializeWith(InitializeResult({InitializeSteps[i]}, 1), targetFps, TRUE)
    \/ \E targetFps \in {40, 50}, query \in BOOLEAN :
          Daro_InitializeWith(InitializeResult({}, 1), targetFps, query)
    \/ Daro_Shutdown
    \/ \E nameOk \in BOOLEAN : Daro_EnableSpoutOutput(nameOk)
    \/ Daro_DisableSpoutOutput
    \/ m_NextReceiverId <= MaxLifecycleLoads /\ Daro_ConnectSpoutReceiver(TRUE)
    \/ Daro_ConnectSpoutReceiver(FALSE)
    \/ Daro_DisconnectSpoutReceiver(1)
    \/ m_NextTextureId <= MaxLifecycleLoads /\ Daro_LoadTexture("a", TRUE)
    \/ /\ m_NextVideoId <= MaxLifecycleLoads
       /\ \E file \in {ShortFileMF, FileNone} : Daro_LoadVideo(file, TRUE, "ok")
    \/ g_FrameNumber < MaxLifecycleFrames /\ Daro_EndFrame(500000)

SpecLifecycle == InitEngine /\ [][LifecycleCall]_vars

\* the statuses of a step that failed
C21_Failures ==
    {DARO_ERROR_CREATE_DEVICE, DARO_ERROR_CREATE_RT, DARO_ERROR_CREATE_SHADERS,
     DARO_ERROR_CREATE_GEOMETRY, DARO_ERROR_CREATE_STAGING, DARO_ERROR_CREATE_FRAMEBUFFER}

(***************************************************************************)
(* C21: a failed initialization.  Daro_Initialize returns DARO_OK, the     *)
(* status of the step that failed or AlreadyInitialized, and               *)
(* Daro_GetLastError returns the same code.  After a step failed the       *)
(* engine is not initialized and holds neither renderer nor frame buffer.  *)
(* A call on an engine that is not initialized never returns               *)
(* AlreadyInitialized, so a call after a failure is attempted afresh, and  *)
(* the call returns DARO_OK exactly when it makes the engine initialized.  *)
(***************************************************************************)
C21_FailedInitialize ==
    /\ [](lastOp.op = "Initialize" =>
            /\ lastOp.ret = g_LastError
            /\ lastOp.ret \in C21_Failures \cup {DARO_OK, DARO_ERROR_ALREADY_INIT}
            /\ lastOp.ret \in C21_Failures =>
                  ~g_Initialized /\ ~g_Renderer /\ ~g_FrameBuffer)
    /\ [][lastOp'.op = "Initialize" =>
            /\ (lastOp'.ret = DARO_ERROR_ALREADY_INIT) <=> g_Initialized
            /\ (lastOp'.ret = DARO_OK) <=> (~g_Initialized /\ g_Initialized')
            /\ (lastOp.op = "Initialize" /\ lastOp.ret \in C21_Failures) =>
                  lastOp'.ret \in C21_Failures \cup {DARO_OK}]_vars

\* an initialization at 40 frames per second has failed at the render target
C21_Witness ==
    /\ lastOp = [op |-> "Initialize", ret |-> DARO_ERROR_CREATE_RT]
    /\ g_LastError = DARO_ERROR_CREATE_RT
    /\ g_TargetFps = 40
    /\ ~g_Initialized

\* the place of a release in the shutdown order: output sharing, videos,
\* input sharing, GPU objects, device
C22_Phase(kind) ==
    CASE kind = "sender" -> 1
      [] kind \in {"video", "MediaFoundation"} -> 2
      [] kind \in {"receiver", "senderDirectX"} -> 3
      [] kind \in {"textFormat", "textBrush", "shapeBrush", "D2DRenderTarget", "texture",
                   "pipeline", "syncQuery"} -> 4
      [] kind \in {"context", "device"} -> 5

(***************************************************************************)
(* C22: the shutdown order.  A Daro_Shutdown of the initialized engine     *)
(* releases in this order: the output sharing, then every video, then the  *)
(* input-sharing connections, then the GPU objects the renderer holds, and *)
(* the device last; every video, receiver and texture there was is         *)
(* released before the device, and nothing is released after it.           *)
(***************************************************************************)
C22_ShutdownOrder ==
    [][(g_Initialized /\ lastOp'.op = "Shutdown") =>
         LET r == ShutdownReleases
         IN /\ \A i, j \in 1 .. Len(r) : i < j => C22_Phase(r[i].kind) <= C22_Phase(r[j].kind)
            /\ r[Len(r)].kind = "device"
            /\ lastOp'.last = "device"
            /\ \A id \in DOMAIN m_Players : \E i \in 1 .. Len(r) : r[i] = [kind |-> "video", id |-> id]
            /\ \A id \in m_SpoutReceivers : \E i \in 1 .. Len(r) : r[i] = [kind |-> "receiver", id |-> id]
            /\ \A id \in DOMAIN m_Textures : \E i \in 1 .. Len(r) : r[i] = [kind |-> "texture", id |-> id]
            /\ m_Players' = EmptyIndex /\ m_SpoutReceivers' = {} /\ m_Textures' = EmptyIndex
            /\ ~m_SpoutEnabled' /\ ~m_SyncQuery']_vars

(***************************************************************************)
(* The frame cycle: a host that calls the four entry points of the cycle   *)
(* in any order on an initialized engine with one rectangle, the Spout     *)
(* output switched on at some moment; no reader locks the frame buffer.    *)
(***************************************************************************)
MaxCycleFrames == 2

CycleCall ==
    \/ Daro_BeginFrame(FALSE, {0}, NoFailure)
    \/ \E mapOk \in BOOLEAN : Daro_Render({"ok"}, mapOk, FBStride)
    \/ g_FrameNumber < MaxCycleFrames /\ Daro_EndFrame(200000)
    \/ Daro_Present
    \/ Daro_EnableSpoutOutput(TRUE)
    \/ Daro_SetLayerCount(1)
    \/ Daro_UpdateLayer(0, FALSE, RectA)
    \/ W_Acquire
    \/ W_CopyRow
    \/ W_Stamp

SpecCycle == InitFB /\ [][CycleCall]_vars

(***************************************************************************)
(* C23, as stated: the frame cycle is enforced.  A Daro_Render that no     *)
(* Daro_BeginFrame precedes in its cycle (the first call of a run, or a    *)
(* second Render after one BeginFrame) clears nothing, draws nothing,      *)
(* copies nothing to staging and publishes nothing to the frame buffer,    *)
(* and a Daro_Present called after BeginFrame and before Render sends      *)
(* nothing to Spout.                                                       *)
(***************************************************************************)
C23_FrameCycle ==
    /\ []((lastOp.op = "Render" /\ ~frameBegun) =>
            IF lastOp.ran /\ ~lastOp.begun
            THEN ~lastOp.clear /\ lastOp.events = <<>> /\ ~lastOp.copy /\ ~lastOp.write
            ELSE TRUE)
    /\ [][(lastOp'.op = "Present" /\ frameBegun) => ~lastOp'.sent]_vars

(***************************************************************************)
(* Frames whose draws may fail.  The host, on one thread, builds a table   *)
(* of four layers through Daro_UpdateLayer: slot 0 a mask (or a Circle     *)
(* layer carrying a target list) over id 5, slot 1 a second mask over id 7 *)
(* or a text, slot 2 the layer of id 5 as rectangle, circle or text, slot  *)
(* 3 the rectangle of id 7; Direct2D may fail any creation and any         *)
(* EndDraw, MapStaging may fail.                                           *)
(***************************************************************************)
MaskOut7 == MkLayer(21, 1, DARO_TYPE_MASK, 1, 2, FALSE, 1, 1, <<7>>)
CircleMask == MkLayer(23, 1, DARO_TYPE_CIRCLE, 2, 2, FALSE, 0, 1, <<5>>)
Text6 == MkLayer(6, 1, DARO_TYPE_TEXT, 2, 4, TRUE, 0, 0, <<>>)
CircleT == MkLayer(5, 1, DARO_TYPE_CIRCLE, 2, 4, FALSE, 0, 0, <<>>)
Rect7 == MkLayer(7, 1, DARO_TYPE_RECTANGLE, 2, 4, FALSE, 0, 0, <<>>)

DrawUpdates ==
    {<<0, MaskIn>>, <<0, CircleMask>>,
     <<1, MaskOut7>>, <<1, Text6>>,
     <<2, RectA>>, <<2, CircleT>>, <<2, TextT>>,
     <<3, Rect7>>}

DrawCount == 4

DrawEnv == {"ok", "createFail", "endFail"}

\* the host fills each slot once, then sets the count and renders frames
DrawsCall ==
    \/ /\ wpc = "idle" /\ g_LayerCount = 0
       /\ \E u \in DrawUpdates : g_Layers[u[1]] = ZeroLayer /\ Daro_UpdateLayer(u[1], FALSE, u[2])
    \/ wpc = "idle" /\ g_LayerCount = 0 /\ Daro_SetLayerCount(DrawCount)
    \/ wpc = "idle" /\ Daro_BeginFrame(FALSE, {0}, NoFailure)
    \/ \E mapOk \in BOOLEAN : Daro_Render(DrawEnv, mapOk, FBStride)
    \/ W_Acquire
    \/ W_CopyRow
    \/ W_Stamp

SpecDraws == InitFB /\ [][DrawsCall]_vars

(***************************************************************************)
(* C24: one failing draw never aborts the frame.  In every Daro_Render     *)
(* call that renders, whatever draws fail, every active layer of the       *)
(* snapshot that is not a group is dispatched, the dispatches come in      *)
(* ascending layer order, the frame is copied to staging and, when the     *)
(* staging texture can be mapped, it is handed to the frame buffer.        *)
(***************************************************************************)
C24_Own(k) == lastOp.events[k].what \in {"normal", "masked", "maskPreview"}

C24_Dispatched(i) ==
    \E k \in 1 .. Len(lastOp.events) : C24_Own(k) /\ lastOp.events[k].idx = i

C24_FailedAt(k) == lastOp.events[k].outcome \in {"createFail", "endFail"}

C24_FailureDoesNotAbort ==
    (lastOp.op = "Render" /\ lastOp.ran) =>
        /\ \A i \in 0 .. (lastOp.n - 1) :
              (lastOp.layers[i].active # 0 /\ lastOp.layers[i].layerType # DARO_TYPE_GROUP)
                  => C24_Dispatched(i)
        /\ \A k1, k2 \in 1 .. Len(lastOp.events) :
              (k1 < k2 /\ C24_Own(k1) /\ C24_Own(k2))
                  => lastOp.events[k1].idx < lastOp.events[k2].idx
        /\ lastOp.copy
        /\ lastOp.write = lastOp.map

\* a frame in which the draw of layer 1 failed, the layers 2 and 3 were
\* drawn after it and the frame was handed to the frame buffer
C24_Witness ==
    /\ lastOp.op = "Render" /\ lastOp.ran /\ lastOp.n = DrawCount
    /\ \E k \in 1 .. Len(lastOp.events) :
          /\ lastOp.events[k].idx = 1 /\ C24_FailedAt(k)
          /\ \E k2, k3 \in (k + 1) .. Len(lastOp.events) :
                /\ lastOp.events[k2].idx = 2 /\ lastOp.events[k2].what = "masked"
                /\ lastOp.events[k3].idx = 3 /\ lastOp.events[k3].outcome = "ok"
                /\ lastOp.events[k3].px # {}
    /\ lastOp.write

(***************************************************************************)
(* C25: the stencil protocol around a masked layer that is not text.  The  *)
(* draw of the target is immediately preceded by the stencil write of its  *)
(* mask and every stencil write is immediately followed by its target; the *)
(* stencil write is issued with colour writes disabled, the WriteMask      *)
(* state and reference 1, on a plane that was cleared to 0 (after it the   *)
(* plane is 0 outside the mask's rectangle and, with the view bound and    *)
(* the shaders set, 1 inside); the target is drawn under the equal-1 test  *)
(* for an Inner mask and the not-equal-1 test for an Outer one; every      *)
(* other draw of the frame is issued under the Disabled state with colour  *)
(* writes on, and RenderWithMasks returns in that state.                   *)
(***************************************************************************)
C25_StencilTarget(e) == e.what = "masked" /\ e.via # "text"

C25_WriteOf(e, t) ==
    LET mask == lastOp.layers[t.mask]
    IN /\ e.what = "stencilWrite" /\ e.idx = t.mask
       /\ e.blend = "NoColor" /\ e.dss = "WriteMask" /\ e.ref = 1
       /\ e.px = {}
       /\ \A x \in Canvas \ Region(mask) : e.stencil[x] = 0
       /\ (e.dsv /\ commonBound) => \A x \in Region(mask) : e.stencil[x] = 1

C25_StencilProtocol ==
    (lastOp.op = "Render" /\ lastOp.ran) =>
        /\ \A k \in 1 .. Len(lastOp.events) :
              LET e == lastOp.events[k]
              IN /\ C25_StencilTarget(e) =>
                       /\ k > 1 /\ C25_WriteOf(lastOp.events[k - 1], e)
                       /\ e.dss = TestState(lastOp.layers[e.mask]) /\ e.ref = 1
                       /\ e.blend = "Normal"
                 /\ e.what = "stencilWrite" =>
                       /\ k < Len(lastOp.events)
                       /\ C25_StencilTarget(lastOp.events[k + 1])
                       /\ lastOp.events[k + 1].mask = e.idx
                 /\ (e.what # "stencilWrite" /\ ~C25_StencilTarget(e)) =>
                       (e.dss = "Disabled" /\ e.blend = "Normal")
        /\ lastOp.dss = "Disabled"
        /\ lastOp.blend = "Normal"

\* a frame with two masked rectangles: layer 2 inside the Inner mask of slot
\* 0, then layer 3 outside the Outer mask of slot 1
C25_Witness ==
    /\ lastOp.op = "Render" /\ lastOp.ran /\ lastOp.n = DrawCount
    /\ lastOp.layers[0] = MaskIn /\ lastOp.layers[1] = MaskOut7
    /\ \E k2, k3 \in 1 .. Len(lastOp.events) :
          /\ k2 < k3
          /\ lastOp.events[k2].idx = 2 /\ lastOp.events[k2].via = "quad"
          /\ lastOp.events[k2].dss = "TestInner"
          /\ lastOp.events[k2].px = Region(MaskIn)
          /\ lastOp.events[k3].idx = 3 /\ lastOp.events[k3].via = "quad"
          /\ lastOp.events[k3].dss = "TestOuter"
          /\ lastOp.events[k3].px = Region(Rect7) \ Region(MaskOut7)
          /\ lastOp.events[k3].px # {}

(***************************************************************************)
(* C26, as stated: a masked Circle layer is clipped by its mask.  Whenever *)
(* a masked circle is drawn, the depth-stencil view is bound, the stencil  *)
(* test of its mask is in effect and the pixels drawn are those of the     *)
(* circle the mask lets through.                                           *)
(***************************************************************************)
C26_MaskedCircleClipped ==
    (lastOp.op = "Render" /\ lastOp.ran) =>
        \A k \in 1 .. Len(lastOp.events) :
            LET e == lastOp.events[k]
            IN (e.what = "masked" /\ e.via = "circle" /\ e.outcome = "ok") =>
                   /\ e.dsv
                   /\ e.dss = TestState(lastOp.layers[e.mask])
                   /\ e.px = Clipped(lastOp.layers[e.idx], lastOp.layers[e.mask])

(***************************************************************************)
(* C27, as stated: the clip of a masked text has the shape of its mask,    *)
(* and the elliptic clip is reachable through the layer API.  The only     *)
(* record RenderText takes for a circular mask is one of Circle type, so   *)
(* the statement is: a text drawn in a frame whose table holds an active   *)
(* Circle-type layer that lists the text's id among its masked layers is   *)
(* clipped with an ellipse, and a text masked by a Mask-type layer with a  *)
(* rectangle.                                                              *)
(***************************************************************************)
C27_CircularMasks(i) ==
    {m \in 0 .. (lastOp.n - 1) :
        /\ lastOp.layers[m].layerType = DARO_TYPE_CIRCLE
        /\ lastOp.layers[m].active # 0
        /\ lastOp.layers[m].maskedLayerCount > 0
        /\ lastOp.layers[i].id \in PushedIds(lastOp.layers[m])}

C27_TextClipShape ==
    (lastOp.op = "Render" /\ lastOp.ran) =>
        \A k \in 1 .. Len(lastOp.events) :
            LET e == lastOp.events[k]
            IN (e.via = "text" /\ e.outcome = "ok") =>
                   /\ C27_CircularMasks(e.idx) # {} => e.clip = "ellipse"
                   /\ (e.what = "masked" /\ e.clip # "none") =>
                          e.clip = ClipShape(lastOp.layers[e.mask])

\* Daro_Render never hands RenderText a mask record of Circle type
NoEllipseClip ==
    (lastOp.op = "Render" /\ lastOp.ran) =>
        \A k \in 1 .. Len(lastOp.events) : lastOp.events[k].clip # "ellipse"

(***************************************************************************)
(* C28, as stated: a failed draw leaves the pipeline as it found it.  In a *)
(* frame set up by Daro_BeginFrame, after a draw has returned early on a   *)
(* failed creation, every later masked raster layer of the frame is drawn  *)
(* with the depth-stencil view bound and reaches only the pixels its mask  *)
(* lets through.                                                           *)
(***************************************************************************)
C28_FailedDrawKeepsState ==
    (lastOp.op = "Render" /\ lastOp.ran /\ lastOp.begun) =>
        \A k, j \in 1 .. Len(lastOp.events) :
            LET f == lastOp.events[k]
                e == lastOp.events[j]
            IN (k < j /\ f.outcome = "createFail" /\ e.what = "masked" /\ e.via = "quad") =>
                   /\ e.dsv
                   /\ e.px \subseteq Clipped(lastOp.layers[e.idx], lastOp.layers[e.mask])

(***************************************************************************)
(* The two threads under g_Mutex.  The render thread runs the frame-cycle  *)
(* entry points, the host thread the layer-table calls; a memcpy of one    *)
(* DaroLayer is two steps (the leading fields, then the rest), so that a   *)
(* copy not protected by the mutex could tear.  MapStaging fails in these  *)
(* runs, so that no DaroFrameBuffer::Write follows the draws.              *)
(***************************************************************************)
\* a lock that does not wait for the mutex
LockIgnored == TRUE

\* `std::lock_guard<std::mutex> lock(g_Mutex);` can be passed
CanLock == g_Mutex = "free"

\* record `old` after the first part of memcpy(&old, &new, sizeof(DaroLayer))
WithHead(old, new) ==
    [old EXCEPT !.id = new.id, !.active = new.active, !.layerType = new.layerType,
                !.posX = new.posX, !.sizeX = new.sizeX]

\* history: what an atomic copy of the table taken now would hold
Instant(count, layers) == [n |-> count, layers |-> Snapshot(layers, count)]

\* history: a table call of the host completes while the render thread copies
NoteInstant(rt, count, layers) ==
    IF rt.pc = "r_copy" THEN [rt EXCEPT !.instants = @ \cup {Instant(count, layers)}] ELSE rt

\* Daro_BeginFrame: `std::lock_guard<std::mutex> lock(g_Mutex);`
RT_BeginFrameLock ==
    /\ renderThread.pc = "idle" /\ g_Initialized
    /\ CanLock
    /\ g_Mutex' = "render"
    /\ renderThread' = [renderThread EXCEPT !.pc = "bf_run"]
    /\ UNCHANGED <<fbVars, engVars, mediaVars, hostThread>>

\* `if (g_Renderer) g_Renderer->BeginFrame();` and the return, which unlocks
RT_BeginFrameRun ==
    /\ renderThread.pc = "bf_run"
    /\ BeginFrameBody(FALSE, {0}, NoFailure)
    /\ g_Mutex' = "free"
    /\ renderThread' = [renderThread EXCEPT !.pc = "idle"]
    /\ UNCHANGED hostThread

\* Daro_Render: the lock of the copy block, `localLayerCount = g_LayerCount;`
RT_RenderLock ==
    /\ renderThread.pc = "idle" /\ g_Initialized /\ g_Renderer
    /\ CanLock
    /\ g_Mutex' = "render"
    /\ renderThread' = [pc |-> IF g_LayerCount = 0 THEN "r_unlock" ELSE "r_copy",
                        n |-> g_LayerCount, i |-> 0,
                        layers |-> [k \in 0 .. (g_LayerCount - 1) |-> <<0, ZeroLayer>>],
                        instants |-> {Instant(g_LayerCount, g_Layers)}]
    /\ UNCHANGED <<fbVars, engVars, mediaVars, hostThread>>

\* the memcpy into localLayers, record i: its leading fields ..
RT_CopyHead ==
    /\ renderThread.pc = "r_copy" /\ renderThread.layers[renderThread.i][1] = 0
    /\ renderThread' =
          [renderThread EXCEPT
             !.layers[renderThread.i] = <<1, WithHead(@[2], g_Layers[renderThread.i])>>]
    /\ UNCHANGED <<fbVars, engVars, mediaVars, g_Mutex, hostThread>>

\* .. and the rest of it
RT_CopyTail ==
    /\ renderThread.pc = "r_copy" /\ renderThread.layers[renderThread.i][1] = 1
    /\ renderThread' =
          [renderThread EXCEPT
             !.layers[renderThread.i] = <<2, WithHead(g_Layers[renderThread.i], @[2])>>,
             !.i = @ + 1,
             !.pc = IF renderThread.i + 1 = renderThread.n THEN "r_unlock" ELSE "r_copy"]
    /\ UNCHANGED <<fbVars, engVars, mediaVars, g_Mutex, hostThread>>

\* the end of the copy block
RT_RenderUnlock ==
    /\ renderThread.pc = "r_unlock"
    /\ g_Mutex' = "free"
    /\ renderThread' = [renderThread EXCEPT
                          !.pc = "r_draw",
                          !.layers = [k \in DOMAIN renderThread.layers |->
                                        <<2, renderThread.layers[k][2]>>]]
    /\ UNCHANGED <<fbVars, engVars, mediaVars, hostThread>>

\* the rest of Daro_Render, on localLayers
RT_RenderDraw ==
    /\ renderThread.pc = "r_draw"
    /\ RenderBody([k \in DOMAIN renderThread.layers |-> renderThread.layers[k][2]],
                  renderThread.n, {"ok"}, FALSE, FBStride)
    /\ renderThread' = [renderThread EXCEPT !.pc = "idle"]
    /\ UNCHANGED <<g_Mutex, hostThread>>

\* the table calls of the host: Daro_UpdateLayer, Daro_SetLayerCount,
\* Daro_ClearLayers
HostCalls ==
    {[name |-> "UpdateLayer", index |-> 0, layer |-> MaskIn],
     [name |-> "UpdateLayer", index |-> 1, layer |-> RectA],
     [name |-> "SetLayerCount", count |-> 2],
     [name |-> "ClearLayers"]}

HT_Call ==
    /\ hostThread.pc = "idle"
    /\ \E call \in HostCalls : hostThread' = [pc |-> "lock", call |-> call]
    /\ UNCHANGED <<fbVars, engVars, mediaVars, g_Mutex, renderThread>>

HT_Lock ==
    /\ hostThread.pc = "lock"
    /\ CanLock
    /\ g_Mutex' = "host"
    /\ hostThread' = [hostThread EXCEPT
                        !.pc = IF hostThread.call.name = "UpdateLayer" THEN "head" ELSE "run"]
    /\ UNCHANGED <<fbVars, engVars, mediaVars, renderThread>>

\* Daro_UpdateLayer: the memcpy into g_Layers[index], its leading fields
HT_WriteHead ==
    /\ hostThread.pc = "head"
    /\ g_Layers' = [g_Layers EXCEPT
                      ![hostThread.call.index] = WithHead(@, hostThread.call.layer)]
    /\ hostThread' = [hostThread EXCEPT !.pc = "run"]
    /\ UNCHANGED <<g_Initialized, g_LastError, g_Renderer, g_FrameBuffer, g_LayerCount,
                   g_FrameNumber, rendererVars, layerToMasks, lastOp, lastUpdate,
                   frameBegun, fbVars, mediaVars, g_Mutex, renderThread>>

\* the rest of the call and its return, which unlocks
HT_Run ==
    /\ hostThread.pc = "run"
    /\ LET call == hostThread.call
       IN IF call.name = "UpdateLayer" THEN UpdateLayerBody(call.index, FALSE, call.layer)
          ELSE IF call.name = "SetLayerCount" THEN SetLayerCountBody(call.count)
          ELSE IF call.name = "ClearLayers" THEN ClearLayersBody
          ELSE ShutdownBody
    /\ g_Mutex' = "free"
    /\ hostThread' = [pc |-> "idle"]
    /\ renderThread' = NoteInstant(renderThread, g_LayerCount', g_Layers')

MaxThreadFrames == 1

ThreadStep ==
    \/ RT_BeginFrameLock
    \/ RT_BeginFrameRun
    \/ RT_RenderLock
    \/ RT_CopyHead
    \/ RT_CopyTail
    \/ RT_RenderUnlock
    \/ RT_RenderDraw
    \/ /\ renderThread.pc = "idle" /\ g_FrameNumber < MaxThreadFrames
       /\ Daro_EndFrame(200000)
    \/ renderThread.pc = "idle" /\ Daro_Present
    \/ HT_Call
    \/ HT_Lock
    \/ HT_WriteHead
    \/ HT_Run

SpecThreads == InitFB /\ [][ThreadStep]_vars

(***************************************************************************)
(* C29, as stated: the layer-table lock is never held during GPU work or   *)
(* video decode.  Whenever the host thread waits for g_Mutex in a table    *)
(* call and the render thread holds it, the render thread is copying the   *)
(* snapshot (or about to leave the copy block).                            *)
(***************************************************************************)
C29_LockOnlyForCopy ==
    (hostThread.pc = "lock" /\ g_Mutex = "render") =>
        renderThread.pc \in {"r_copy", "r_unlock"}

(***************************************************************************)
(* C30: the snapshot of one Daro_Render call is an atomic copy.  Once the  *)
(* copy block is left, the count and the records of localLayers are those  *)
(* of the table at one instant between the lock and the unlock, no record  *)
(* is half copied, and the frame is rendered from exactly that snapshot,   *)
(* whatever the table has become since.                                    *)
(***************************************************************************)
C30_Local ==
    [n |-> renderThread.n,
     layers |-> [k \in DOMAIN renderThread.layers |-> renderThread.layers[k][2]]]

C30_AtomicSnapshot ==
    /\ renderThread.pc \in {"r_unlock", "r_draw"} =>
          /\ C30_Local \in renderThread.instants
          /\ \A k \in DOMAIN renderThread.layers : renderThread.layers[k][1] = 2
    /\ (renderThread.pc = "idle" /\ lastOp.op = "Render" /\ lastOp.ran) =>
          /\ lastOp.n = C30_Local.n /\ lastOp.layers = C30_Local.layers
          /\ C30_Local \in renderThread.instants

\* a frame has been rendered from a snapshot of two layers, slot 0 holding the
\* mask, while the host has cleared the table since the copy
C30_Witness ==
    /\ renderThread.pc = "idle" /\ lastOp.op = "Render" /\ lastOp.ran
    /\ lastOp.n = 2 /\ lastOp.layers[0] = MaskIn /\ lastOp.layers[1] = RectA
    /\ Len(lastOp.events) > 0
    /\ g_LayerCount = 0 /\ g_Layers[0] = ZeroLayer
    /\ hostThread.pc = "lock"

(***************************************************************************)
(* Daro_Shutdown on the host thread while the render thread is inside      *)
(* Daro_Render.  Shutdown takes g_Mutex for the whole call; Render holds   *)
(* it for the copy block only and calls through g_Renderer afterwards      *)
(* without looking at it again.  A call through the released renderer is   *)
(* undefined: the thread may come back from it or not.                     *)
(***************************************************************************)
\* Daro_Shutdown is called
HT_CallShutdown ==
    /\ hostThread.pc = "idle"
    /\ hostThread' = [pc |-> "lock", call |-> [name |-> "Shutdown"]]
    /\ UNCHANGED <<fbVars, engVars, mediaVars, g_Mutex, renderThread>>

\* `g_Renderer->Clear(..)` and what follows, the renderer being there
RT_RenderDrawLive == g_Renderer /\ RT_RenderDraw

\* `g_Renderer->Clear(..)` on a renderer Daro_Shutdown has released
RT_RenderDrawReleased ==
    /\ renderThread.pc = "r_draw"
    /\ ~g_Renderer
    /\ \E after \in {"idle", "crashed"} :
          renderThread' = [renderThread EXCEPT !.pc = after]
    /\ lastOp' = [op |-> "Render", ran |-> FALSE, released |-> TRUE]
    /\ UNCHANGED <<g_Initialized, g_LastError, g_Renderer, g_FrameBuffer, g_Layers,
                   g_LayerCount, g_FrameNumber, rendererVars, layerToMasks, lastUpdate,
                   frameBegun, fbVars, mediaVars, g_Mutex, hostThread>>

TeardownStep ==
    \/ RT_RenderLock
    \/ RT_CopyHead
    \/ RT_CopyTail
    \/ RT_RenderUnlock
    \/ RT_RenderDrawLive
    \/ RT_RenderDrawReleased
    \/ HT_Call
    \/ HT_CallShutdown
    \/ HT_Lock
    \/ HT_WriteHead
    \/ HT_Run

SpecTeardown == InitFB /\ [][TeardownStep]_vars

(***************************************************************************)
(* C31, as stated: the check of g_Renderer under the mutex prevents use    *)
(* after release.  Whenever the render thread has passed the check and is  *)
(* about to draw, the renderer and the frame buffer are still there, and   *)
(* no Daro_Render has called through a released renderer.                  *)
(***************************************************************************)
C31_NoUseAfterShutdown ==
    /\ renderThread.pc = "r_draw" => (g_Renderer /\ g_FrameBuffer)
    /\ renderThread.pc # "crashed"

(***************************************************************************)
(* Frames in which EndDraw returns D2DERR_RECREATE_TARGET.  The renderer   *)
(* holds a texture, a Spout receiver and a video; the table holds a text,  *)
(* a circle and a second text.                                             *)
(***************************************************************************)
MaxRecreateLoads == 1

RecreateEnv == {"ok", "recreate", "recreateFail"}

RecreateCall ==
    \/ \E u \in {<<0, TextT>>, <<1, CircleT>>, <<2, Text6>>} :
          g_Layers[u[1]] = ZeroLayer /\ Daro_UpdateLayer(u[1], FALSE, u[2])
    \/ g_LayerCount = 0 /\ Daro_SetLayerCount(3)
    \/ m_NextTextureId <= MaxRecreateLoads /\ Daro_LoadTexture("a", TRUE)
    \/ m_NextReceiverId <= MaxRecreateLoads /\ Daro_ConnectSpoutReceiver(TRUE)
    \/ m_NextVideoId <= MaxRecreateLoads /\ Daro_LoadVideo(ShortFileMF, TRUE, "ok")
    \/ Daro_BeginFrame(FALSE, {0}, NoFailure)
    \/ Daro_Render(RecreateEnv, FALSE, FBStride)

SpecRecreate == InitFB /\ [][RecreateCall]_vars

(***************************************************************************)
(* C32: recreation of the Direct2D target.  A Daro_Render, whatever its    *)
(* draws answer, changes neither the device-lost flag, nor the renderer,   *)
(* nor the textures, receivers and videos; every active layer of the       *)
(* snapshot is dispatched; a draw whose EndDraw asked for recreation       *)
(* leaves a rebuilt target with no brush and no text format, and a text    *)
(* drawn to the end after it has created the format of its layer anew.     *)
(***************************************************************************)
C32_Dispatched(i) == \E k \in 1 .. Len(lastOp.events) : lastOp.events[k].idx = i

C32_Recreation ==
    /\ [][lastOp'.op = "Render" =>
             /\ m_DeviceLost' = m_DeviceLost
             /\ g_Renderer' = g_Renderer /\ g_Initialized' = g_Initialized
             /\ m_Textures' = m_Textures
             /\ m_SpoutReceivers' = m_SpoutReceivers
             /\ m_Players' = m_Players]_vars
    /\ []((lastOp.op = "Render" /\ lastOp.ran) =>
            /\ \A i \in 0 .. (lastOp.n - 1) : lastOp.layers[i].active # 0 => C32_Dispatched(i)
            /\ \A k \in 1 .. Len(lastOp.events) :
                  LET e == lastOp.events[k]
                  IN /\ e.outcome = "recreate" => e.d2d = FreshD2D
                     /\ (e.via = "text" /\ e.outcome \in {"ok", "endFail"}) =>
                           e.d2d.textFormat = lastOp.layers[e.idx].fontKey)

\* a frame in which the first text asked for recreation, the circle and the
\* second text were drawn after it, with a texture, a receiver and a video
\* loaded
C32_Witness ==
    /\ lastOp.op = "Render" /\ lastOp.ran /\ Len(lastOp.events) = 3
    /\ lastOp.events[1].outcome = "recreate" /\ lastOp.events[1].via = "text"
    /\ lastOp.events[2].outcome = "ok" /\ lastOp.events[2].via = "circle"
    /\ lastOp.events[3].outcome = "ok" /\ lastOp.events[3].via = "text"
    /\ lastOp.events[3].px # {}
    /\ DOMAIN m_Textures # {} /\ m_SpoutReceivers # {} /\ DOMAIN m_Players # {}
    /\ ~m_DeviceLost

(***************************************************************************)
(* C33: the wake-up of a waiting Write is never lost.  A Write during      *)
(* which Unlock was called, with no Lock after it, is never dropped, and   *)
(* while it waits it goes on to copy the whole frame and stamp its frame   *)
(* number unless a Lock comes first.                                       *)
(***************************************************************************)
C33_NotDropped ==
    (wGhost.result = "dropped") => ~wGhost.unlockedSince

C33_Woken ==
    (wpc \in {"waiting", "reacquire"} /\ wGhost.unlockedSince)
        ~> ((wGhost.result = "written" /\ hdr.frameNumber = w.frameNumber)
            \/ ~wGhost.unlockedSince)

C33_WakeUpNotLost == []C33_NotDropped /\ C33_Woken

\* a Write that found the buffer locked, was notified by an Unlock before any
\* timeout and has published its whole frame
C33_Witness ==
    /\ wpc = "idle" /\ wGhost.result = "written"
    /\ wGhost.lockedAtCall /\ wGhost.unlockedSince
    /\ ~w.timedOut
    /\ w.srcStride = FBStride
    /\ hdr.frameNumber = w.frameNumber
    /\ \A y \in Rows, x \in Cols : m_pPixels[y][x] = w.frameNumber

(***************************************************************************)
(* Publishing: the render thread runs BeginFrame, Render and EndFrame one  *)
(* call after the other on an initialized engine with an empty table,      *)
(* while the reader thread locks and unlocks the frame buffer at will.     *)
(***************************************************************************)
MaxPublishFrames == 2

PublishCall ==
    \/ wpc = "idle" /\ Daro_BeginFrame(FALSE, {0}, NoFailure)
    \/ wpc = "idle" /\ \E mapOk \in BOOLEAN : Daro_Render({"ok"}, mapOk, FBStride)
    \/ wpc = "idle" /\ g_FrameNumber < MaxPublishFrames /\ Daro_EndFrame(200000)
    \/ W_Acquire
    \/ W_Wake_Notify
    \/ W_Wake_Spurious
    \/ W_Wake_Timeout
    \/ W_Reacquire
    \/ W_CopyRow
    \/ W_Stamp
    \/ R_Lock
    \/ R_Unlock
    \/ R_Notify

SpecPublish == InitFB /\ [][PublishCall]_vars

(***************************************************************************)
(* C34: the frame number in the shared header.  A Render that enters Write *)
(* passes the engine frame counter of that moment; the header changes only *)
(* when a Write completes, to the number that Write was given; a dropped   *)
(* Write leaves it as it was at the call.  So the header never decreases   *)
(* and never exceeds the engine counter, and Daro_EndFrame on an           *)
(* initialized engine adds exactly 1 to the counter.                       *)
(***************************************************************************)
C34_Steps ==
    [][/\ hdr'.frameNumber >= hdr.frameNumber
       /\ hdr'.frameNumber # hdr.frameNumber =>
             (wGhost'.result = "written" /\ hdr'.frameNumber = w.frameNumber)
       /\ (wpc = "idle" /\ wpc' # "idle") => w'.frameNumber = g_FrameNumber
       /\ (lastOp'.op = "EndFrame" /\ g_Initialized
            /\ (lastOp.op # "EndFrame" \/ g_FrameNumber' # g_FrameNumber)) =>
             g_FrameNumber' = g_FrameNumber + 1]_vars

C34_HeaderFrameNumber ==
    /\ [](hdr.frameNumber <= g_FrameNumber)
    /\ []((wpc = "idle" /\ wGhost.result = "written") => hdr.frameNumber = w.frameNumber)
    /\ []((wpc = "idle" /\ wGhost.result = "dropped") =>
             hdr.frameNumber = wGhost.frameNumber)
    /\ [](wGhost.result = "none" => hdr.frameNumber = 0)
    /\ C34_Steps

\* frame 1 was published, the publish of frame 2 was dropped behind a held
\* lock: the header still says 1 while the engine counter is 2
C34_Witness ==
    /\ wpc = "idle" /\ wGhost.result = "dropped"
    /\ w.frameNumber = 2 /\ g_FrameNumber = 2
    /\ hdr.frameNumber = 1

(***************************************************************************)
(* C35: the bytes a non-dropped Write stores.  Offsets are relative to     *)
(* m_pPixels; the pixel region is [0, stride x height).  With equal        *)
(* strides the copy covers exactly stride x height bytes; otherwise row y  *)
(* receives min(srcStride, stride) bytes at offset y x stride.  Every      *)
(* byte written lies in the region, and the bytes outside the written set  *)
(* keep the values they had at the call.                                   *)
(***************************************************************************)
PixelRegion == 0 .. (FBStride * FBHeight - 1)

\* offsets stored by the copy of row y
RowBytes(y, srcStride) == {y * FBStride + x : x \in CopiedCols(srcStride)}

\* offsets stored by the rows copied so far
BytesWritten(rows, srcStride) == UNION {RowBytes(y, srcStride) : y \in 0 .. (rows - 1)}

C35_WriteInBounds ==
    (wpc \in {"copy", "idle"} /\ wGhost.result \in {"running", "written"}) =>
        LET written == BytesWritten(w.y, w.srcStride) IN
        /\ written \subseteq PixelRegion
        /\ \A y \in 0 .. (w.y - 1) :
              Cardinality(RowBytes(y, w.srcStride)) = Min(w.srcStride, FBStride)
        /\ (w.srcStride = FBStride /\ w.y = FBHeight) => written = PixelRegion
        /\ \A y \in Rows, x \in Cols :
              m_pPixels[y][x] = IF y * FBStride + x \in written
                                THEN w.frameNumber
                                ELSE wGhost.pixels[y][x]

\* a completed row-by-row Write from a source whose rows are wider than the
\* buffer's, over pixels of an earlier frame
C35_Witness ==
    /\ wpc = "idle" /\ wGhost.result = "written"
    /\ w.srcStride > FBStride /\ w.y = FBHeight
    /\ wGhost.pixels[FBHeight - 1][FBStride - 1] # NoFrame
    /\ wGhost.pixels[FBHeight - 1][FBStride - 1] # w.frameNumber

(***************************************************************************)
(* Frames of tables in which a mask, active or not, lists a rectangle, a   *)
(* group or circle and a text, each of them active or not.                 *)
(***************************************************************************)
\* masks over the middle of the canvas listing the ids 5, 6 and 8
MaskOn == MkLayer(20, 1, DARO_TYPE_MASK, 2, 2, FALSE, 0, 3, <<5, 6, 8>>)
MaskOff == MkLayer(20, 0, DARO_TYPE_MASK, 2, 2, FALSE, 0, 3, <<5, 6, 8>>)
MaskOffOuter == MkLayer(20, 0, DARO_TYPE_MASK, 2, 2, FALSE, 1, 3, <<5, 6, 8>>)
\* the targets
RectOff == MkLayer(5, 0, DARO_TYPE_RECTANGLE, 2, 4, FALSE, 0, 0, <<>>)
Group6 == MkLayer(6, 1, DARO_TYPE_GROUP, 2, 4, FALSE, 0, 0, <<>>)
Circle6 == MkLayer(6, 1, DARO_TYPE_CIRCLE, 2, 4, FALSE, 0, 0, <<>>)
Text8 == MkLayer(8, 1, DARO_TYPE_TEXT, 2, 4, TRUE, 0, 0, <<>>)
TextOff == MkLayer(8, 0, DARO_TYPE_TEXT, 2, 4, TRUE, 0, 0, <<>>)

SkipUpdates ==
    {<<0, MaskOn>>, <<0, MaskOff>>, <<0, MaskOffOuter>>,
     <<1, RectA>>, <<1, RectOff>>,
     <<2, Group6>>, <<2, Circle6>>,
     <<3, Text8>>, <<3, TextOff>>}

SkipCount == 4

\* the host fills each slot once, then sets the count and renders frames
SkipCall ==
    \/ /\ g_LayerCount = 0
       /\ \E u \in SkipUpdates : g_Layers[u[1]] = ZeroLayer /\ Daro_UpdateLayer(u[1], FALSE, u[2])
    \/ g_LayerCount = 0 /\ \E show \in BOOLEAN : Daro_SetShowBounds(show)
    \/ g_LayerCount = 0 /\ Daro_SetLayerCount(SkipCount)
    \/ Daro_BeginFrame(FALSE, {0}, NoFailure)
    \/ Daro_Render(DrawOutcomes, FALSE, FBStride)

SpecSkip == InitFB /\ [][SkipCall]_vars

(***************************************************************************)
(* C36: Render dispatches the layers in increasing table index order, and  *)
(* a layer that is inactive or of Group type produces no content draw (no  *)
(* draw of its own, no preview, no bounding box), whether or not a mask    *)
(* lists it.  The only draw issued for an inactive layer is the stencil    *)
(* write of an inactive mask, which writes no colour.                      *)
(***************************************************************************)
C36_Content(e) == e.what # "stencilWrite"

C36_Skipped(layer) == layer.active = 0 \/ layer.layerType = DARO_TYPE_GROUP

C36_OrderAndSkips ==
    (lastOp.op = "Render" /\ lastOp.ran) =>
        /\ \A k1, k2 \in 1 .. Len(lastOp.events) :
              (k1 < k2 /\ C36_Content(lastOp.events[k1]) /\ C36_Content(lastOp.events[k2]))
                  => lastOp.events[k1].idx <= lastOp.events[k2].idx
        /\ \A k \in 1 .. Len(lastOp.events) :
              LET e == lastOp.events[k] IN
              /\ e.idx \in 0 .. (lastOp.n - 1)
              /\ C36_Content(e) => ~C36_Skipped(lastOp.layers[e.idx])
              /\ ~C36_Content(e) =>
                    (e.px = {} /\ lastOp.layers[e.idx].layerType = DARO_TYPE_MASK)

\* a frame with bounding boxes in which the active mask lists the inactive
\* rectangle 5, the group 6 and the text 8: the text is drawn masked, the
\* other two are not drawn
C36_Witness ==
    /\ lastOp.op = "Render" /\ lastOp.ran /\ lastOp.n = SkipCount /\ lastOp.show
    /\ lastOp.layers[0] = MaskOn /\ lastOp.layers[1] = RectOff
    /\ lastOp.layers[2] = Group6 /\ lastOp.layers[3] = Text8
    /\ \E k \in 1 .. Len(lastOp.events) :
          /\ lastOp.events[k].idx = 3 /\ lastOp.events[k].what = "masked"
          /\ lastOp.events[k].px # {}

(***************************************************************************)
(* C40: the mask lookup does not look at the active flag.  A Mask layer    *)
(* with active == 0 is not drawn itself (no preview, no bounding box), yet *)
(* every active target it lists is rendered through the masked path with  *)
(* that mask: a raster target after the stencil write of the mask's        *)
(* rectangle, under the test of the mask's mode with reference 1, and,     *)
(* with the stencil view bound, on exactly the pixels the mask lets        *)
(* through; a text through the clip geometry of the mask's rectangle.      *)
(***************************************************************************)
C40_InactiveMask(layer) ==
    layer.layerType = DARO_TYPE_MASK /\ layer.active = 0 /\ layer.maskedLayerCount > 0

\* layer t is a drawable target of the mask at index i, the first that lists it
C40_TargetOf(t, i) ==
    /\ ~C36_Skipped(lastOp.layers[t])
    /\ lastOp.layers[t].layerType # DARO_TYPE_MASK
    /\ lastOp.layers[t].id \in PushedIds(lastOp.layers[i])
    /\ \A j \in 0 .. (i - 1) :
          ~(ListsTargets(lastOp.layers[j])
             /\ lastOp.layers[t].id \in PushedIds(lastOp.layers[j]))

C40_MaskedBy(k, t, i) ==
    LET e == lastOp.events[k]
        through == Clipped(lastOp.layers[t], lastOp.layers[i])
    IN /\ e.what = "masked" /\ e.mask = i
       /\ e.via \in {"quad", "circle"} =>
             /\ e.dss = TestState(lastOp.layers[i]) /\ e.ref = 1
             /\ k > 1 /\ lastOp.events[k - 1].what = "stencilWrite"
             /\ lastOp.events[k - 1].idx = i
       /\ (e.via = "quad" /\ e.dsv) => (e.px = through \/ e.px = {})
       /\ (e.via = "text" /\ e.clip # "none") => (e.clip = "rect" /\ e.px \in {through, {}})

C37_PlayingMakesProgress ==
    \A id \in JustUpdated :
        LET u == lastOp.upd[id]
            p == m_Players[id]
        IN (u.ran /\ BigGeq(u.slots, p.m_FrameDuration) /\ u.tries = u.frames)
              => (u.frames > 0 \/ u.eos)

(***************************************************************************)
(* C38: paused time never becomes decode backlog.  An update of a video    *)
(* that is not playing changes neither currentFrame nor the texture (nor   *)
(* the clock or the stream position), however much time has passed; Play   *)
(* zeroes the clock and reads the performance counter; and the first       *)
(* update after a Play, t ticks after it, decodes at most                  *)
(* floor(t / frameDuration) = floor(t * frameRate / frequency) frames.     *)
(***************************************************************************)
C38_UpdateStep(id) ==
    /\ lastOp'.op = "BeginFrame"
    /\ id \in DOMAIN lastOp'.upd
    /\ id \in DOMAIN m_Players

\* the ticks that passed between the state before the update and the update
C38_TicksPassed(id) ==
    IF lastOp'.upd[id].ran
    THEN m_Players'[id].m_LastFrameTime - m_Players[id].m_LastFrameTime
            - m_Players[id].counterAhead
    ELSE m_Players'[id].counterAhead - m_Players[id].counterAhead

C38_PausedTimeIsNoBacklog ==
    [][\A id \in DOMAIN m_Players \cap DOMAIN m_Players' :
          /\ (C38_UpdateStep(id) /\ ~m_Players[id].m_Playing) =>
                /\ ~lastOp'.upd[id].ran
                /\ m_Players'[id].m_CurrentFrame = m_Players[id].m_CurrentFrame
                /\ m_Players'[id].tex = m_Players[id].tex
                /\ m_Players'[id].stream = m_Players[id].stream
                /\ m_Players'[id].m_AccumulatedTime = m_Players[id].m_AccumulatedTime
                /\ ~m_Players'[id].m_Playing
          /\ (lastOp'.op = "PlayVideo" /\ lastOp'.id = id /\ m_Players[id].m_Loaded
                /\ g_Initialized /\ g_Renderer) =>
                /\ m_Players'[id].m_AccumulatedTime = DoubleZero
                /\ m_Players'[id].counterAhead = 0
          /\ (C38_UpdateStep(id) /\ lastOp.op = "PlayVideo" /\ lastOp.id = id) =>
                lastOp'.upd[id].frames
                    <= (C38_TicksPassed(id) * m_Players[id].m_FrameRate) \div PerfFrequency
      ]_vars

\* 240 ms after the load the player has run one update only, which saw the
\* 120 ms since the Play and an empty clock; the frames it decoded are all
\* the frames decoded since the load
C38_Witness ==
    /\ lastOp.op = "BeginFrame" /\ 1 \in DOMAIN lastOp.upd
    /\ lastOp.upd[1].ran
    /\ lastOp.upd[1].ticks = 1200000
    /\ lastOp.upd[1].was = DoubleZero
    /\ m_Players[1].m_LastFrameTime = 2400000
    /\ lastOp.upd[1].frames >= 2
    /\ m_Players[1].m_CurrentFrame = lastOp.upd[1].frames

(***************************************************************************)
(* The video registry late in the life of the process: the engine is       *)
(* initialized, the VideoManager started, and all but two of the positive  *)
(* ids have been handed out and unloaded again.                            *)
(***************************************************************************)
\* the ids the counter may hand out after it has wrapped around
MaxWrapId == 2

LateRegistry ==
    /\ m_SpoutEnabled = FALSE
    /\ m_Textures = EmptyIndex
    /\ m_NextTextureId = 1
    /\ m_SpoutReceivers = {}
    /\ m_NextReceiverId = 1
    /\ m_SyncQuery = TRUE
    /\ vm_Initialized = TRUE
    /\ m_Players = EmptyIndex
    /\ m_NextVideoId = INT_MAX - 1
    /\ g_DroppedFrames = 0
    /\ g_TargetFps = 50
    /\ g_Initialized = TRUE
    /\ g_LastError = DARO_OK
    /\ g_Renderer = TRUE
    /\ g_FrameBuffer = TRUE
    /\ g_Layers = ZeroTable
    /\ g_LayerCount = 0
    /\ g_FrameNumber = 0
    /\ m_DeviceLost = FALSE
    /\ m_ShowBounds = FALSE
    /\ omDSV = FALSE
    /\ commonBound = FALSE
    /\ d2d = FreshD2D
    /\ layerToMasks = EmptyIndex
    /\ lastOp = [op |-> "UnloadVideo", id |-> INT_MAX - 2]
    /\ lastUpdate = EmptyIndex
    /\ frameBegun = FALSE

WrapIds == {INT_MAX - 1, INT_MAX, 1, 2}

WrapCall ==
    \/ \E file \in {ShortFileMF, FileNone} :
          /\ m_NextVideoId \in {INT_MAX - 1, INT_MAX, INT_MIN} \cup (1 .. MaxWrapId)
          /\ Daro_LoadVideo(file, TRUE, "ok")
    \/ \E id \in WrapIds : Daro_UnloadVideo(id)
    \/ \E id \in WrapIds, call \in {"PlayVideo", "PauseVideo"} : Daro_VideoControl(call, id, FALSE)
    \/ \E id \in WrapIds : Daro_VideoQuery(id)

InitWrap == FBInitialized /\ LateRegistry /\ ThreadsIdle

SpecWrap == InitWrap /\ [][WrapCall]_vars

(***************************************************************************)
(* C39, as stated: video ids are unique among live videos.  A successful   *)
(* VideoManager::LoadVideo returns a positive id that no loaded video is   *)
(* registered under and adds one entry to the registry, leaving every      *)
(* other entry as it was, also when the next-id counter wraps around.      *)
(***************************************************************************)
C39_UniqueIds ==
    [][(lastOp'.op = "LoadVideo" /\ m_NextVideoId' # m_NextVideoId) =>
          /\ lastOp'.ret > 0
          /\ lastOp'.ret \notin DOMAIN m_Players
          /\ DOMAIN m_Players' = DOMAIN m_Players \cup {lastOp'.ret}
          /\ \A k \in DOMAIN m_Players : m_Players'[k] = m_Players[k]
      ]_vars

====
